---- MODULE Spec2Model ----
(***************************************************************************)
(* Job manager and job store of the blockify distillation service.         *)
(*                                                                         *)
(* Threads: the API thread (the asyncio event loop, one handler at a time),*)
(* and, per job, the watchdog task (_execute_job_with_timeout) and the     *)
(* work task (_execute_job), both run by the same ThreadPoolExecutor of    *)
(* max_workers threads.  Every store operation is a sequence of steps, one *)
(* step per access to shared state (a SELECT, a commit, a dict lookup, an  *)
(* attribute write on the shared Job object, a file write, a del), so the  *)
(* threads interleave inside the operations as the Python threads do.      *)
(*                                                                         *)
(* Optional values are sequences: None is <<>>; a dict is <<"dict", x>>;   *)
(* a str is <<x>>; JSON text of v is <<"json">> \o v.                      *)
(* Timestamps (created_at, completed_at), the webhook url and the log are  *)
(* not modelled: no operation reads them back into a decision.             *)
(***************************************************************************)
EXTENDS Integers, Sequences, FiniteSets, TLC

\* ---------------------------------------------------------------- bounds
MaxWorkers == 2
MaxIterations == 1

\* The model follows one submitted job: jobs are keyed by their own uuid4
\* and share no row, dict entry or file; what they share is the executor,
\* whose size ranges over 1..MaxWorkers.
JobIds == {1}
Backends == {"sqlite", "filesystem"}

\* ---------------------------------------------------------------- values
None == <<>>

RUNNING == "running"
SUCCESS == "success"
FAILURE == "failure"
TIMEOUT == "timeout"
Terminal == {SUCCESS, FAILURE, TIMEOUT}

TimeoutError == <<"Job execution timed out">>

\* json.dumps / json.loads on the values the service stores.
Dumps(v) == <<"json">> \o v
Loads(s) == Tail(s)
\* A file just after open(path, "w"): it exists and holds no text yet (a
\* value distinct from None, no file, and from every document).
EmptyFile == <<"empty", "file">>
\* Python truthiness of an Optional dict / Optional str column.
Truthy(v) == Len(v) > 0 /\ v # <<"dict">>

\* The result object process_dedupe_request returns for job j.
ResultOf(j) == <<"dict", "result", j>>
\* The snapshot _build_intermediate_result builds after iteration it.
SnapshotOf(it) == <<"dict", "partial", it>>
DetailsOf(phase) == <<"dict", phase>>

\* No process_dedupe_request call has started: the locals of
\* process_dedupe_request and run_dedupe, all empty.
NoRequest ==
    [pc |-> "none", blocks |-> <<>>, max_iterations |-> 0, parallel |-> FALSE,
     active_blocks |-> <<>>, starting_count |-> 0, master_list |-> <<>>,
     all_hidden_uuids |-> {}, all_merged_blocks |-> <<>>, iteration |-> 0,
     pending |-> {}, merged_results |-> <<>>,
     hidden_uuids_this_iteration |-> {}, items_not_in_clusters |-> {},
     failed_cluster_indices |-> {}, failed_leaf_uuids |-> {}, uuids |-> 0,
     called |-> FALSE, found_pairs |-> FALSE, final_blocks |-> <<>>,
     stats |-> <<>>, response |-> <<>>, intermediate |-> <<>>]

\* ---------------------------------------------------------------- state
\* No iteration is being merged.
NoMerge == [pc |-> "none", parallel_threads |-> 0, nodes |-> <<>>]

\* No merge of a cluster is being attempted.
NoAttempt == [pc |-> "none", attempt |-> 0, api_attempt |-> 0,
              responses |-> <<>>, waits |-> <<>>, last_error |-> "",
              merged_contents |-> 0]

\* run_dedupe has not been entered.
NotRunning == [pc |-> "none", max_iterations |-> 0, iteration |-> 0,
               progress |-> 0, phase |-> "", current_threshold |-> 0,
               similarity_threshold |-> 0, rounds |-> 0, block_count |-> 0,
               similar_pairs |-> FALSE, mergeable_clusters |-> FALSE,
               merged_results |-> FALSE]

\* generate_embeddings has not been called.
NoEmbedding == [pc |-> "none", texts |-> <<>>, max_batch_size |-> 0,
                parallel_threads |-> 0, batch_ranges |-> <<>>,
                futures |-> <<>>, results_by_index |-> <<>>,
                collected |-> <<>>, posts |-> 0, result |-> <<>>]

\* _find_similar_pairs has not been called.
NoSearch == [pc |-> "none", n |-> 0, similarity |-> <<>>, threshold |-> 0,
             strategy |-> "", chunks |-> <<>>, completed |-> {},
             similar_pairs |-> <<>>]

\* _create_clusters has not been called.
NoClusters == [pc |-> "none", n_items |-> 0, similar_pairs |-> {}, strategy |-> "",
               clusters |-> <<>>, mergeable_clusters |-> <<>>]

\* _process_large_cluster_recursively has not split a cluster.
NoSplit == [pc |-> "none", n |-> 0, parallel |-> FALSE, target_size |-> 0,
            num_subclusters |-> 0, subclusters |-> <<>>, results_by_idx |-> <<>>,
            completed |-> {}, all_results |-> <<>>]

VARIABLES
    backend,            \* settings.database_backend
    max_workers,        \* settings.max_workers
    timeout_large,      \* settings.job_timeout_seconds exceeds every run time
    rows,               \* sqlite: table jobs, job id -> None | <<row>>
    jobs_mem,           \* filesystem: job id \in self._jobs
    obj,                \* filesystem: the Job object created for the id
    job_file,           \* filesystem: <id>.json, None | <<data>>
    intermediate_file,  \* filesystem: <id>.intermediate.json, None | text
    running_futures,    \* JobStore._running_futures: id tracked
    queue,              \* executor work queue (FIFO of <<kind, job>>)
    thr,                \* per thread: position and locals
    created,            \* create_job has returned this id
    job_id_var,         \* the handler's local job_id is bound (closure cell)
    deleted,            \* delete_job has returned True for this id
    dedupe,             \* the locals of a process_dedupe_request call
    merger,             \* the invocations of the cluster merger of one iteration
    llm,                \* one _single_llm_merge call: attempts, responses, sleeps
    loop,               \* the iteration loop of run_dedupe: reports and threshold
    embed,              \* one generate_embeddings call: batches, futures, result
    search,             \* one _find_similar_pairs call: chunks and pairs found
    clustering,         \* one _create_clusters call and the clusters picked for merging
    split               \* one split of a large cluster into subclusters and the collection of their results

vars == <<backend, max_workers, timeout_large, rows, jobs_mem, obj, job_file,
          intermediate_file, running_futures, queue, thr, created, job_id_var,
          deleted, dedupe, merger, llm, loop, embed, search, clustering, split>>

\* The variables of the parts of the algorithm that are modelled on their own.
algoVars == <<merger, llm, loop, embed, search, clustering, split>>

storeVars == <<rows, jobs_mem, obj, job_file, intermediate_file>>

Client == <<"client", 0>>
Wd(j) == <<"wd", j>>
Wk(j) == <<"wk", j>>
Threads == {Client} \cup {Wd(j) : j \in JobIds} \cup {Wk(j) : j \in JobIds}
PoolThreads == Threads \ {Client}
JobOf(t) == t[2]
Kind(t) == t[1]

\* A thread: pc (position in its own code), ip (driver script index),
\* op/step (store call in progress), arg (its argument), id (the job the
\* call is about), ret (delete_job's local `deleted`), job (_jobs.get
\* returned an object), model (sqlite: the ORM object the SELECT loaded;
\* filesystem: the attribute values the Job had at the lookup, kept as
\* history and read by no action), data (_persist_job's local job_data
\* while the job file is open).
Idle(pc0) == [pc |-> pc0, ip |-> 0, op |-> "none", step |-> "", arg |-> None,
              model |-> None, data |-> None, job |-> FALSE, ret |-> FALSE,
              id |-> 0]

\* Job dataclass defaults (db/base.py).
NewJob == [status |-> RUNNING, result |-> None, error |-> None, progress |-> 0,
           progress_phase |-> "", progress_details |-> <<"dict">>,
           intermediate_result |-> None]

\* JobModel row written by SQLiteJobStore.create_job.
NewRow == [status |-> RUNNING, result |-> None, error |-> None, progress |-> 0,
           progress_phase |-> "", progress_details |-> Dumps(<<"dict">>),
           intermediate_result |-> None]

\* SQLiteJobStore._to_job
ToJobBadResult(m) ==
    [status |-> m.status,
     result |-> m.result,
     error |-> m.error,
     progress |-> m.progress,
     progress_phase |-> m.progress_phase,
     progress_details |-> IF Truthy(m.progress_details)
                          THEN Loads(m.progress_details) ELSE <<"dict">>,
     intermediate_result |-> IF Truthy(m.intermediate_result)
                             THEN Loads(m.intermediate_result) ELSE None]

ToJob(m) ==
    [status |-> m.status,
     result |-> IF Truthy(m.result) THEN Loads(m.result) ELSE None,
     error |-> m.error,
     progress |-> m.progress,
     progress_phase |-> m.progress_phase,
     progress_details |-> IF Truthy(m.progress_details)
                          THEN Loads(m.progress_details) ELSE <<"dict">>,
     intermediate_result |-> IF Truthy(m.intermediate_result)
                             THEN Loads(m.intermediate_result) ELSE None]

\* FilesystemJobStore._persist_job: the JSON document written for a Job.
JobData(job) == [status |-> job.status, result |-> Dumps(job.result),
                 error |-> job.error]

\* FilesystemJobStore._load_job_from_disk
LoadJobFromDisk(j) ==
    IF job_file[j] = None THEN None
    ELSE IF job_file[j] = EmptyFile THEN None  \* json.load raises: logged
    ELSE LET data == job_file[j][1]
         IN  <<[NewJob EXCEPT !.status = data.status,
                              !.result = Loads(data.result),
                              !.error = data.error]>>

\* get_job(job_id): None or <<Job>>.
GetJob(j) ==
    IF backend = "sqlite"
    THEN IF rows[j] = None THEN None ELSE <<ToJob(rows[j][1])>>
    ELSE IF jobs_mem[j] THEN <<obj[j]>> ELSE LoadJobFromDisk(j)

\* get_intermediate_result(job_id)
GetIntermediateResult(j) ==
    IF backend = "sqlite"
    THEN IF GetJob(j) = None THEN None ELSE GetJob(j)[1].intermediate_result
    ELSE IF jobs_mem[j] /\ Truthy(obj[j].intermediate_result)
         THEN obj[j].intermediate_result
         ELSE IF intermediate_file[j] \notin {None, EmptyFile}
              THEN Loads(intermediate_file[j])
              ELSE None  \* no file, or json.load raises: logged

\* JobManager.get_job_status: the poll response (None when the job is unknown).
GetJobStatus(j) ==
    IF GetJob(j) = None THEN None
    ELSE LET job == GetJob(j)[1]
         IN  <<[status |-> job.status,
                results |-> IF job.status = SUCCESS /\ Truthy(job.result)
                            THEN job.result ELSE None,
                error |-> IF job.status \in {FAILURE, TIMEOUT}
                          THEN job.error ELSE None,
                progress |-> IF job.status = RUNNING
                             THEN <<job.progress, job.progress_phase>> ELSE None,
                intermediate_result |->
                    IF job.status \in {FAILURE, TIMEOUT}
                       /\ Truthy(GetIntermediateResult(j))
                    THEN GetIntermediateResult(j) ELSE None]>>


\* ------------------------------------------------------- driver script
\* DedupeAlgorithm.run_dedupe as the job manager sees it: the progress
\* reports, the phases between them, and the snapshot after an iteration.
\* pct is the reported fraction in percent.
Report(phase, pct) == [kind |-> "report", phase |-> phase, pct |-> pct]
Phase(name) == [kind |-> "phase", phase |-> name, pct |-> 0]
Snapshot(it) == [kind |-> "snapshot", phase |-> "iteration", pct |-> it]
Return == [kind |-> "return", phase |-> "completion", pct |-> 100]

IterationProgress(it) == 15 + (it * 80) \div MaxIterations

RECURSIVE Iterations(_)
Iterations(it) ==
    IF it > MaxIterations THEN <<>>
    ELSE << Report("iteration", IterationProgress(it)),
            Phase("pairs"), Phase("cluster"), Phase("merge"), Phase("embed"),
            Snapshot(it) >> \o Iterations(it + 1)

Script ==
    << Report("initialization", 0), Report("embeddings", 5), Phase("embed"),
       Report("embeddings", 15) >>
    \o Iterations(1)
    \o << Report("completion", 95), Report("completion", 100), Return >>

\* ------------------------------------------------------- calls and returns
FirstStep(op) ==
    IF backend = "sqlite" THEN "select"
    ELSE IF op = "delete_job" THEN "mem" ELSE "get"

\* Thread record tr entering store operation op on job j with argument arg.
Call(tr, pc0, op, j, arg) ==
    [tr EXCEPT !.pc = pc0, !.op = op, !.step = FirstStep(op), !.arg = arg,
               !.model = None, !.data = None, !.job = FALSE, !.ret = FALSE,
               !.id = j]

Done == Idle("done")

\* _execute_job's except branch: update_job_failure(job_id, str(e)).
BeginFailure(tr, j, exc) == Call(tr, "failure", "update_job_failure", j, <<exc>>)

\* The worker at script item ip.  progress_callback and save_intermediate
\* (api.py) read the handler's job_id when they are called.
BeginItem(tr, j, ip) ==
    LET item == Script[ip]
        at == [tr EXCEPT !.pc = "driver", !.ip = ip, !.op = "none", !.step = "",
                         !.arg = None, !.model = None, !.data = None,
                         !.job = FALSE, !.id = j]
    IN  CASE item.kind = "report" ->
                IF job_id_var[j]
                THEN Call(at, "driver", "update_job_progress", j,
                          <<item.phase, item.pct>>)
                ELSE BeginFailure(at, j, "NameError")
          [] item.kind = "snapshot" ->
                IF job_id_var[j]
                THEN Call(at, "driver", "save_intermediate_result", j,
                          SnapshotOf(item.pct))
                ELSE at
          [] item.kind = "return" ->
                Call(at, "success", "update_job_success", j, ResultOf(j))
          [] OTHER -> at

\* Where thread t continues when its store call returns (exc = "ok") or
\* raises exc.
After(t, exc) ==
    LET tr == thr[t]
        j == tr.id
    IN  CASE Kind(t) = "wk" /\ tr.pc = "driver" ->
                \* run_dedupe swallows a failed snapshot save (algorithm.py
                \* 296-302); a failed report propagates out of func.
                IF exc = "ok" \/ Script[tr.ip].kind = "snapshot"
                THEN BeginItem(tr, j, tr.ip + 1)
                ELSE BeginFailure(tr, j, exc)
          [] Kind(t) = "wk" /\ tr.pc = "success" ->
                IF exc = "ok" THEN Done ELSE BeginFailure(tr, j, exc)
          [] Kind(t) = "wd" /\ tr.pc = "timeout" ->
                IF exc = "ok" THEN Done
                ELSE Call(tr, "wrapper", "update_job_failure", j,
                          <<"Timeout wrapper error", exc>>)
          [] Kind(t) = "client" -> Idle("idle")
          [] OTHER -> Done

Resume(t, exc) == thr' = [thr EXCEPT ![t] = After(t, exc)]
Goto(t, s) == thr' = [thr EXCEPT ![t].step = s]

InOp(t, b, op) == backend = b /\ thr[t].op = op


\* ------------------------------------------------------- sqlite backend
\* A session loads the row with a SELECT (thr[t].model keeps the loaded
\* attribute values) and writes it back at commit: the UPDATE carries the
\* attributes whose new value differs from the loaded one, and raises
\* StaleDataError when it matches no row.  completed_at = time.time() makes
\* every terminal update write.
Flush(cur, loaded, new) == IF new # loaded THEN new ELSE cur

SQLite_create_job(j) ==
    /\ rows' = [rows EXCEPT ![j] = <<NewRow>>]
    /\ UNCHANGED <<jobs_mem, obj, job_file, intermediate_file>>

SQLite_update_job_success(t) ==
    /\ InOp(t, "sqlite", "update_job_success")
    /\ LET j == thr[t].id
           m == thr[t].model
       IN  CASE thr[t].step = "select" ->
                  /\ thr' = [thr EXCEPT ![t].model = rows[j],
                                        ![t].step = IF rows[j] # None THEN "commit"
                                                    ELSE "remove_future"]
                  /\ UNCHANGED <<rows, running_futures>>
             [] thr[t].step = "commit" ->
                  IF rows[j] = None
                  THEN Resume(t, "StaleDataError") /\ UNCHANGED <<rows, running_futures>>
                  ELSE /\ rows' = [rows EXCEPT ![j] = <<[rows[j][1] EXCEPT
                              !.status = Flush(@, m[1].status, SUCCESS),
                              !.result = Flush(@, m[1].result, Dumps(thr[t].arg)),
                              !.intermediate_result =
                                  Flush(@, m[1].intermediate_result, None)]>>]
                       /\ Goto(t, "remove_future")
                       /\ UNCHANGED running_futures
             [] thr[t].step = "remove_future" ->
                  /\ running_futures' = [running_futures EXCEPT ![j] = FALSE]
                  /\ Resume(t, "ok")
                  /\ UNCHANGED rows
    /\ UNCHANGED <<algoVars, dedupe, backend, max_workers, timeout_large, jobs_mem, obj, job_file,
                   intermediate_file, queue, created, job_id_var, deleted>>

SQLite_update_job_failure(t) ==
    /\ InOp(t, "sqlite", "update_job_failure")
    /\ LET j == thr[t].id
           m == thr[t].model
       IN  CASE thr[t].step = "select" ->
                  /\ thr' = [thr EXCEPT ![t].model = rows[j],
                                        ![t].step = IF rows[j] # None THEN "commit"
                                                    ELSE "remove_future"]
                  /\ UNCHANGED <<rows, running_futures>>
             [] thr[t].step = "commit" ->
                  IF rows[j] = None
                  THEN Resume(t, "StaleDataError") /\ UNCHANGED <<rows, running_futures>>
                  ELSE /\ rows' = [rows EXCEPT ![j] = <<[rows[j][1] EXCEPT
                              !.status = Flush(@, m[1].status, FAILURE),
                              !.error = Flush(@, m[1].error, thr[t].arg)]>>]
                       /\ Goto(t, "remove_future")
                       /\ UNCHANGED running_futures
             [] thr[t].step = "remove_future" ->
                  /\ running_futures' = [running_futures EXCEPT ![j] = FALSE]
                  /\ Resume(t, "ok")
                  /\ UNCHANGED rows
    /\ UNCHANGED <<algoVars, dedupe, backend, max_workers, timeout_large, jobs_mem, obj, job_file,
                   intermediate_file, queue, created, job_id_var, deleted>>

SQLite_update_job_timeout(t) ==
    /\ InOp(t, "sqlite", "update_job_timeout")
    /\ LET j == thr[t].id
           m == thr[t].model
       IN  CASE thr[t].step = "select" ->
                  \* "Don't overwrite if already completed": return inside the
                  \* session, before remove_future.
                  /\ IF rows[j] # None /\ rows[j][1].status = SUCCESS
                     THEN Resume(t, "ok")
                     ELSE thr' = [thr EXCEPT ![t].model = rows[j],
                                     ![t].step = IF rows[j] # None THEN "commit"
                                                 ELSE "remove_future"]
                  /\ UNCHANGED <<rows, running_futures>>
             [] thr[t].step = "commit" ->
                  IF rows[j] = None
                  THEN Resume(t, "StaleDataError") /\ UNCHANGED <<rows, running_futures>>
                  ELSE /\ rows' = [rows EXCEPT ![j] = <<[rows[j][1] EXCEPT
                              !.status = Flush(@, m[1].status, TIMEOUT),
                              !.error = Flush(@, m[1].error, TimeoutError)]>>]
                       /\ Goto(t, "remove_future")
                       /\ UNCHANGED running_futures
             [] thr[t].step = "remove_future" ->
                  /\ running_futures' = [running_futures EXCEPT ![j] = FALSE]
                  /\ Resume(t, "ok")
                  /\ UNCHANGED rows
    /\ UNCHANGED <<algoVars, dedupe, backend, max_workers, timeout_large, jobs_mem, obj, job_file,
                   intermediate_file, queue, created, job_id_var, deleted>>

\* if model and model.status == JobStatus.RUNNING.value
ProgressAllowedAnyStatus(row) == row # None
ProgressAllowed(row) == row # None /\ row[1].status = RUNNING

SQLite_update_job_progress(t) ==
    /\ InOp(t, "sqlite", "update_job_progress")
    /\ LET j == thr[t].id
           m == thr[t].model
           phase == thr[t].arg[1]
           pct == thr[t].arg[2]
           details == Dumps(DetailsOf(phase))
       IN  CASE thr[t].step = "select" ->
                  /\ IF ProgressAllowed(rows[j])
                     THEN thr' = [thr EXCEPT ![t].model = rows[j],
                                             ![t].step = "commit"]
                     ELSE Resume(t, "ok")
                  /\ UNCHANGED rows
             [] thr[t].step = "commit" ->
                  LET dirty == \/ m[1].progress # pct
                               \/ m[1].progress_phase # phase
                               \/ m[1].progress_details # details
                  IN  IF rows[j] = None
                      THEN /\ Resume(t, IF dirty THEN "StaleDataError" ELSE "ok")
                           /\ UNCHANGED rows
                      ELSE /\ rows' = [rows EXCEPT ![j] = <<[rows[j][1] EXCEPT
                                  !.progress = Flush(@, m[1].progress, pct),
                                  !.progress_phase =
                                      Flush(@, m[1].progress_phase, phase),
                                  !.progress_details =
                                      Flush(@, m[1].progress_details, details)]>>]
                           /\ Resume(t, "ok")
    /\ UNCHANGED <<algoVars, dedupe, backend, max_workers, timeout_large, jobs_mem, obj, job_file,
                   intermediate_file, running_futures, queue, created,
                   job_id_var, deleted>>

SQLite_save_intermediate_result(t) ==
    /\ InOp(t, "sqlite", "save_intermediate_result")
    /\ LET j == thr[t].id
           m == thr[t].model
           text == Dumps(thr[t].arg)
       IN  CASE thr[t].step = "select" ->
                  /\ IF rows[j] # None
                     THEN thr' = [thr EXCEPT ![t].model = rows[j],
                                             ![t].step = "commit"]
                     ELSE Resume(t, "ok")
                  /\ UNCHANGED rows
             [] thr[t].step = "commit" ->
                  IF rows[j] = None
                  THEN /\ Resume(t, IF m[1].intermediate_result # text
                                    THEN "StaleDataError" ELSE "ok")
                       /\ UNCHANGED rows
                  ELSE /\ rows' = [rows EXCEPT ![j] = <<[rows[j][1] EXCEPT
                              !.intermediate_result =
                                  Flush(@, m[1].intermediate_result, text)]>>]
                       /\ Resume(t, "ok")
    /\ UNCHANGED <<algoVars, dedupe, backend, max_workers, timeout_large, jobs_mem, obj, job_file,
                   intermediate_file, running_futures, queue, created,
                   job_id_var, deleted>>


\* future.cancel() on the future the store tracks for j (the watchdog's): it
\* takes effect only while that task is still waiting in the executor queue.
RemoveTask(q, task) == SelectSeq(q, LAMBDA x : x # task)
CancelTracked(j) == running_futures[j] /\ thr[Wd(j)].pc = "queued"

SQLite_delete_job(t) ==
    /\ InOp(t, "sqlite", "delete_job")
    /\ LET j == thr[t].id
       IN  CASE thr[t].step = "select" ->
                  /\ IF rows[j] # None THEN Goto(t, "delete") ELSE Resume(t, "ok")
                  /\ UNCHANGED <<rows, running_futures, queue, deleted>>
             [] thr[t].step = "delete" ->
                  /\ rows' = [rows EXCEPT ![j] = None]
                  /\ Goto(t, "future")
                  /\ UNCHANGED <<running_futures, queue, deleted>>
             [] thr[t].step = "future" ->
                  /\ thr' = [thr EXCEPT ![t] = After(t, "ok"),
                                        ![Wd(j)] = IF CancelTracked(j)
                                                   THEN Idle("cancelled") ELSE @]
                  /\ queue' = IF CancelTracked(j) THEN RemoveTask(queue, Wd(j))
                              ELSE queue
                  /\ running_futures' = [running_futures EXCEPT ![j] = FALSE]
                  /\ deleted' = [deleted EXCEPT ![j] = TRUE]
                  /\ UNCHANGED rows
    /\ UNCHANGED <<algoVars, dedupe, backend, max_workers, timeout_large, jobs_mem, obj, job_file,
                   intermediate_file, created, job_id_var>>

\* ------------------------------------------------------- filesystem backend
\* self._jobs maps the id to one Job object for the job's whole life; every
\* thread that looked it up holds a reference to that same object (obj[j]),
\* also after the id has been removed from the dict.
FS_create_job(j) ==
    /\ jobs_mem' = [jobs_mem EXCEPT ![j] = TRUE]
    /\ obj' = [obj EXCEPT ![j] = NewJob]
    /\ UNCHANGED <<rows, job_file, intermediate_file>>

\* job = self._jobs.get(job_id) found the object: go on to step s.
FS_found(t, j, s) ==
    thr' = [thr EXCEPT ![t].step = s, ![t].job = TRUE, ![t].model = <<obj[j]>>]

\* del self._jobs[job_id]; self.remove_future(job_id)
FS_evict(t, j) ==
    IF jobs_mem[j]
    THEN /\ jobs_mem' = [jobs_mem EXCEPT ![j] = FALSE]
         /\ running_futures' = [running_futures EXCEPT ![j] = FALSE]
         /\ Resume(t, "ok")
    ELSE /\ Resume(t, "KeyError")
         /\ UNCHANGED <<jobs_mem, running_futures>>

\* _persist_job up to open(job_file, "w"): job_data is built from the Job
\* and the file is truncated.
FS_open_job_file(t, j) ==
    /\ job_file' = [job_file EXCEPT ![j] = EmptyFile]
    /\ thr' = [thr EXCEPT ![t].step = "dump", ![t].data = <<JobData(obj[j])>>]

\* _persist_job: json.dump(job_data, f) and the close of the file.
FS_dump_job_file(t, j, s) ==
    /\ job_file' = [job_file EXCEPT ![j] = thr[t].data]
    /\ Goto(t, s)

FS_update_job_success(t) ==
    /\ InOp(t, "filesystem", "update_job_success")
    /\ LET j == thr[t].id
       IN  CASE thr[t].step = "get" ->
                  /\ IF jobs_mem[j] THEN FS_found(t, j, "set_status") ELSE Resume(t, "ok")
                  /\ UNCHANGED <<jobs_mem, obj, job_file, intermediate_file,
                                 running_futures>>
             [] thr[t].step = "set_status" ->
                  /\ obj' = [obj EXCEPT ![j].status = SUCCESS]
                  /\ Goto(t, "set_result")
                  /\ UNCHANGED <<jobs_mem, job_file, intermediate_file,
                                 running_futures>>
             [] thr[t].step = "set_result" ->
                  /\ obj' = [obj EXCEPT ![j].result = thr[t].arg]
                  /\ Goto(t, "persist")
                  /\ UNCHANGED <<jobs_mem, job_file, intermediate_file,
                                 running_futures>>
             [] thr[t].step = "persist" ->
                  /\ FS_open_job_file(t, j)
                  /\ UNCHANGED <<jobs_mem, obj, intermediate_file, running_futures>>
             [] thr[t].step = "dump" ->
                  /\ FS_dump_job_file(t, j, "cleanup")
                  /\ UNCHANGED <<jobs_mem, obj, intermediate_file, running_futures>>
             [] thr[t].step = "cleanup" ->
                  /\ intermediate_file' = [intermediate_file EXCEPT ![j] = None]
                  /\ Goto(t, "del")
                  /\ UNCHANGED <<jobs_mem, obj, job_file, running_futures>>
             [] thr[t].step = "del" ->
                  /\ FS_evict(t, j)
                  /\ UNCHANGED <<obj, job_file, intermediate_file>>
    /\ UNCHANGED <<algoVars, dedupe, backend, max_workers, timeout_large, rows, queue, created,
                   job_id_var, deleted>>

FS_update_job_failure(t) ==
    /\ InOp(t, "filesystem", "update_job_failure")
    /\ LET j == thr[t].id
       IN  CASE thr[t].step = "get" ->
                  /\ IF jobs_mem[j] THEN FS_found(t, j, "set_status") ELSE Resume(t, "ok")
                  /\ UNCHANGED <<jobs_mem, obj, job_file, running_futures>>
             [] thr[t].step = "set_status" ->
                  /\ obj' = [obj EXCEPT ![j].status = FAILURE]
                  /\ Goto(t, "set_error")
                  /\ UNCHANGED <<jobs_mem, job_file, running_futures>>
             [] thr[t].step = "set_error" ->
                  /\ obj' = [obj EXCEPT ![j].error = thr[t].arg]
                  /\ Goto(t, "persist")
                  /\ UNCHANGED <<jobs_mem, job_file, running_futures>>
             [] thr[t].step = "persist" ->
                  /\ FS_open_job_file(t, j)
                  /\ UNCHANGED <<jobs_mem, obj, running_futures>>
             [] thr[t].step = "dump" ->
                  /\ FS_dump_job_file(t, j, "del")
                  /\ UNCHANGED <<jobs_mem, obj, running_futures>>
             [] thr[t].step = "del" ->
                  /\ FS_evict(t, j)
                  /\ UNCHANGED <<obj, job_file>>
    /\ UNCHANGED <<algoVars, dedupe, backend, max_workers, timeout_large, rows, intermediate_file,
                   queue, created, job_id_var, deleted>>

FS_update_job_timeout(t) ==
    /\ InOp(t, "filesystem", "update_job_timeout")
    /\ LET j == thr[t].id
       IN  CASE thr[t].step = "get" ->
                  /\ IF jobs_mem[j] /\ obj[j].status # SUCCESS
                     THEN FS_found(t, j, "set_status") ELSE Resume(t, "ok")
                  /\ UNCHANGED <<jobs_mem, obj, job_file, running_futures>>
             [] thr[t].step = "set_status" ->
                  /\ obj' = [obj EXCEPT ![j].status = TIMEOUT]
                  /\ Goto(t, "set_error")
                  /\ UNCHANGED <<jobs_mem, job_file, running_futures>>
             [] thr[t].step = "set_error" ->
                  /\ obj' = [obj EXCEPT ![j].error = TimeoutError]
                  /\ Goto(t, "persist")
                  /\ UNCHANGED <<jobs_mem, job_file, running_futures>>
             [] thr[t].step = "persist" ->
                  /\ FS_open_job_file(t, j)
                  /\ UNCHANGED <<jobs_mem, obj, running_futures>>
             [] thr[t].step = "dump" ->
                  /\ FS_dump_job_file(t, j, "del")
                  /\ UNCHANGED <<jobs_mem, obj, running_futures>>
             [] thr[t].step = "del" ->
                  /\ FS_evict(t, j)
                  /\ UNCHANGED <<obj, job_file>>
    /\ UNCHANGED <<algoVars, dedupe, backend, max_workers, timeout_large, rows, intermediate_file,
                   queue, created, job_id_var, deleted>>

FS_update_job_progress(t) ==
    /\ InOp(t, "filesystem", "update_job_progress")
    /\ LET j == thr[t].id
       IN  CASE thr[t].step = "get" ->
                  /\ IF jobs_mem[j] THEN FS_found(t, j, "set") ELSE Resume(t, "ok")
                  /\ UNCHANGED obj
             [] thr[t].step = "set" ->
                  /\ obj' = [obj EXCEPT ![j].progress = thr[t].arg[2],
                                        ![j].progress_phase = thr[t].arg[1],
                                        ![j].progress_details =
                                            DetailsOf(thr[t].arg[1])]
                  /\ Resume(t, "ok")
    /\ UNCHANGED <<algoVars, dedupe, backend, max_workers, timeout_large, rows, jobs_mem, job_file,
                   intermediate_file, running_futures, queue, created,
                   job_id_var, deleted>>

FS_save_intermediate_result(t) ==
    /\ InOp(t, "filesystem", "save_intermediate_result")
    /\ LET j == thr[t].id
       IN  CASE thr[t].step = "get" ->
                  /\ IF jobs_mem[j] THEN FS_found(t, j, "set") ELSE Resume(t, "ok")
                  /\ UNCHANGED <<obj, intermediate_file>>
             [] thr[t].step = "set" ->
                  /\ obj' = [obj EXCEPT ![j].intermediate_result = thr[t].arg]
                  /\ Goto(t, "open")
                  /\ UNCHANGED intermediate_file
             [] thr[t].step = "open" ->
                  /\ intermediate_file' =
                         [intermediate_file EXCEPT ![j] = EmptyFile]
                  /\ Goto(t, "write")
                  /\ UNCHANGED obj
             [] thr[t].step = "write" ->
                  /\ intermediate_file' =
                         [intermediate_file EXCEPT ![j] = Dumps(thr[t].arg)]
                  /\ Resume(t, "ok")
                  /\ UNCHANGED obj
    /\ UNCHANGED <<algoVars, dedupe, backend, max_workers, timeout_large, rows, jobs_mem, job_file,
                   running_futures, queue, created, job_id_var, deleted>>

FS_delete_job(t) ==
    /\ InOp(t, "filesystem", "delete_job")
    /\ LET j == thr[t].id
       IN  CASE thr[t].step = "mem" ->
                  /\ jobs_mem' = [jobs_mem EXCEPT ![j] = FALSE]
                  /\ thr' = [thr EXCEPT ![t].ret = jobs_mem[j], ![t].step = "file"]
                  /\ UNCHANGED <<job_file, intermediate_file, running_futures,
                                 queue, deleted>>
             [] thr[t].step = "file" ->
                  /\ job_file' = [job_file EXCEPT ![j] = None]
                  /\ thr' = [thr EXCEPT ![t].ret = @ \/ job_file[j] # None,
                                        ![t].step = "intermediate"]
                  /\ UNCHANGED <<jobs_mem, intermediate_file, running_futures,
                                 queue, deleted>>
             [] thr[t].step = "intermediate" ->
                  /\ intermediate_file' = [intermediate_file EXCEPT ![j] = None]
                  /\ Goto(t, "future")
                  /\ UNCHANGED <<jobs_mem, job_file, running_futures, queue,
                                 deleted>>
             [] thr[t].step = "future" ->
                  /\ thr' = [thr EXCEPT ![t] = After(t, "ok"),
                                        ![Wd(j)] = IF CancelTracked(j)
                                                   THEN Idle("cancelled") ELSE @]
                  /\ queue' = IF CancelTracked(j) THEN RemoveTask(queue, Wd(j))
                              ELSE queue
                  /\ running_futures' = [running_futures EXCEPT ![j] = FALSE]
                  /\ deleted' = [deleted EXCEPT ![j] = @ \/ thr[t].ret]
                  /\ UNCHANGED <<jobs_mem, job_file, intermediate_file>>
    /\ UNCHANGED <<algoVars, dedupe, backend, max_workers, timeout_large, rows, obj, created,
                   job_id_var>>


\* ------------------------------------------------------- the API thread
\* JobManager.submit_job, first statement: job_store.create_job().  uuid4
\* gives an identifier no earlier job has.
FreshId(j) == ~created[j] /\ \A i \in JobIds : i < j => created[i]

SubmitJob_create(j) ==
    /\ thr[Client].pc = "idle"
    /\ FreshId(j)
    /\ IF backend = "sqlite" THEN SQLite_create_job(j) ELSE FS_create_job(j)
    /\ created' = [created EXCEPT ![j] = TRUE]
    /\ thr' = [thr EXCEPT ![Client].pc = "submit", ![Client].id = j]
    /\ UNCHANGED <<algoVars, dedupe, backend, max_workers, timeout_large, running_futures, queue,
                   job_id_var, deleted>>

\* executor.submit(self._execute_job_with_timeout, job_id, ...)
SubmitJob_dispatch ==
    /\ thr[Client].pc = "submit"
    /\ LET j == thr[Client].id
       IN  /\ queue' = Append(queue, Wd(j))
           /\ thr' = [thr EXCEPT ![Client].pc = "track", ![Wd(j)].pc = "queued"]
    /\ UNCHANGED <<algoVars, dedupe, backend, max_workers, timeout_large, storeVars,
                   running_futures, created, job_id_var, deleted>>

\* job_store.track_future(job_id, future)
SubmitJob_track_future ==
    /\ thr[Client].pc = "track"
    /\ running_futures' = [running_futures EXCEPT ![thr[Client].id] = TRUE]
    /\ thr' = [thr EXCEPT ![Client].pc = "bind"]
    /\ UNCHANGED <<algoVars, dedupe, backend, max_workers, timeout_large, storeVars, queue,
                   created, job_id_var, deleted>>

\* submit_job returns and the handler binds its local: job_id = ...
SubmitJob_return ==
    /\ thr[Client].pc = "bind"
    /\ job_id_var' = [job_id_var EXCEPT ![thr[Client].id] = TRUE]
    /\ thr' = [thr EXCEPT ![Client] = Idle("idle")]
    /\ UNCHANGED <<algoVars, dedupe, backend, max_workers, timeout_large, storeVars,
                   running_futures, queue, created, deleted>>

\* DELETE /api/jobs/{job_id} for an identifier a submission returned.
DeleteJob_call(j) ==
    /\ thr[Client].pc = "idle"
    /\ job_id_var[j]
    /\ ~deleted[j]
    /\ thr' = [thr EXCEPT ![Client] =
                  Call(thr[Client], "delete", "delete_job", j, None)]
    /\ UNCHANGED <<algoVars, dedupe, backend, max_workers, timeout_large, storeVars,
                   running_futures, queue, created, job_id_var, deleted>>

\* ------------------------------------------------------- the executor
RunningPcs == {"start", "wait", "timeout", "wrapper", "driver", "success",
               "failure"}
Busy == Cardinality({t \in PoolThreads : thr[t].pc \in RunningPcs})

\* A pool thread takes the watchdog task of j from the head of the queue.
StartWatchdog(j) ==
    /\ queue # <<>> /\ Head(queue) = Wd(j)
    /\ Busy < max_workers
    /\ queue' = Tail(queue)
    /\ thr' = [thr EXCEPT ![Wd(j)].pc = "start"]
    /\ UNCHANGED <<algoVars, dedupe, backend, max_workers, timeout_large, storeVars,
                   running_futures, created, job_id_var, deleted>>

\* _execute_job_with_timeout: work_future = executor.submit(_execute_job, ...)
Watchdog_submit_work(j) ==
    /\ thr[Wd(j)].pc = "start"
    /\ queue' = Append(queue, Wk(j))
    /\ thr' = [thr EXCEPT ![Wd(j)].pc = "wait", ![Wk(j)].pc = "queued"]
    /\ UNCHANGED <<algoVars, dedupe, backend, max_workers, timeout_large, storeVars,
                   running_futures, created, job_id_var, deleted>>

\* A pool thread takes the work task of j: _execute_job calls func, which
\* reaches run_dedupe's first report.
StartWork(j) ==
    /\ queue # <<>> /\ Head(queue) = Wk(j)
    /\ Busy < max_workers
    /\ queue' = Tail(queue)
    /\ thr' = [thr EXCEPT ![Wk(j)] = BeginItem(thr[Wk(j)], j, 1)]
    /\ UNCHANGED <<algoVars, dedupe, backend, max_workers, timeout_large, storeVars,
                   running_futures, created, job_id_var, deleted>>

\* wait([work_future], timeout) returns with the future done.
Watchdog_work_done(j) ==
    /\ thr[Wd(j)].pc = "wait"
    /\ thr[Wk(j)].pc = "done"
    /\ thr' = [thr EXCEPT ![Wd(j)] = Done]
    /\ UNCHANGED <<algoVars, dedupe, backend, max_workers, timeout_large, storeVars,
                   running_futures, queue, created, job_id_var, deleted>>

\* Every pool thread is held by a watchdog waiting for work that is not
\* running: nothing in the pool can move before a wait times out.
PoolStarved ==
    /\ Busy = max_workers
    /\ \A t \in PoolThreads : thr[t].pc \in RunningPcs =>
           /\ Kind(t) = "wd" /\ thr[t].pc = "wait"
           /\ thr[Wk(JobOf(t))].pc = "queued"

\* wait(...) returns with the future not done after timeout_seconds: with a
\* timeout larger than every run time that happens only once the pool cannot
\* move.  work_future.cancel() takes a future that has not started out of
\* the queue and does nothing to a running one.
Watchdog_timeout(j) ==
    /\ thr[Wd(j)].pc = "wait"
    /\ thr[Wk(j)].pc # "done"
    /\ timeout_large => PoolStarved
    /\ LET pending == thr[Wk(j)].pc = "queued"
       IN  /\ queue' = IF pending THEN RemoveTask(queue, Wk(j)) ELSE queue
           /\ thr' = [thr EXCEPT
                  ![Wd(j)] = Call(thr[Wd(j)], "timeout", "update_job_timeout", j, None),
                  ![Wk(j)] = IF pending THEN Idle("cancelled") ELSE @]
    /\ UNCHANGED <<algoVars, dedupe, backend, max_workers, timeout_large, storeVars,
                   running_futures, created, job_id_var, deleted>>

\* ------------------------------------------------------- the driver
AtPhase(j) == thr[Wk(j)].pc = "driver" /\ thr[Wk(j)].op = "none"

\* run_dedupe finishes the phase it is in and goes on to the next item.
Driver_next(j) ==
    /\ AtPhase(j)
    /\ thr' = [thr EXCEPT ![Wk(j)] = BeginItem(thr[Wk(j)], j, thr[Wk(j)].ip + 1)]
    /\ UNCHANGED <<algoVars, dedupe, backend, max_workers, timeout_large, storeVars,
                   running_futures, queue, created, job_id_var, deleted>>

\* The embedding client fails after its retries: run_dedupe raises, and
\* _execute_job reports the failure.
Driver_raise(j) ==
    /\ AtPhase(j)
    /\ Script[thr[Wk(j)].ip].phase = "embed"
    /\ thr' = [thr EXCEPT ![Wk(j)] = BeginFailure(thr[Wk(j)], j, "EmbeddingError")]
    /\ UNCHANGED <<algoVars, dedupe, backend, max_workers, timeout_large, storeVars,
                   running_futures, queue, created, job_id_var, deleted>>

\* ------------------------------------------------------- specification
Init ==
    /\ backend \in Backends
    /\ max_workers \in 1..MaxWorkers
    /\ timeout_large \in BOOLEAN
    /\ rows = [j \in JobIds |-> None]
    /\ jobs_mem = [j \in JobIds |-> FALSE]
    /\ obj = [j \in JobIds |-> NewJob]
    /\ job_file = [j \in JobIds |-> None]
    /\ intermediate_file = [j \in JobIds |-> None]
    /\ running_futures = [j \in JobIds |-> FALSE]
    /\ queue = <<>>
    /\ thr = [t \in Threads |-> IF t = Client THEN Idle("idle") ELSE Idle("none")]
    /\ created = [j \in JobIds |-> FALSE]
    /\ job_id_var = [j \in JobIds |-> FALSE]
    /\ deleted = [j \in JobIds |-> FALSE]
    /\ dedupe = NoRequest
    /\ merger = NoMerge
    /\ llm = NoAttempt
    /\ loop = NotRunning
    /\ embed = NoEmbedding
    /\ search = NoSearch
    /\ clustering = NoClusters
    /\ split = NoSplit

StoreStep(t) ==
    \/ SQLite_update_job_success(t)
    \/ SQLite_update_job_failure(t)
    \/ SQLite_update_job_timeout(t)
    \/ SQLite_update_job_progress(t)
    \/ SQLite_save_intermediate_result(t)
    \/ SQLite_delete_job(t)
    \/ FS_update_job_success(t)
    \/ FS_update_job_failure(t)
    \/ FS_update_job_timeout(t)
    \/ FS_update_job_progress(t)
    \/ FS_save_intermediate_result(t)
    \/ FS_delete_job(t)

Next ==
    \/ \E j \in JobIds : SubmitJob_create(j)
    \/ SubmitJob_dispatch
    \/ SubmitJob_track_future
    \/ SubmitJob_return
    \/ \E j \in JobIds : DeleteJob_call(j)
    \/ \E j \in JobIds : StartWatchdog(j)
    \/ \E j \in JobIds : Watchdog_submit_work(j)
    \/ \E j \in JobIds : StartWork(j)
    \/ \E j \in JobIds : Watchdog_work_done(j)
    \/ \E j \in JobIds : Watchdog_timeout(j)
    \/ \E j \in JobIds : Driver_next(j)
    \/ \E j \in JobIds : Driver_raise(j)
    \/ \E t \in Threads : StoreStep(t)

Spec == Init /\ [][Next]_vars

\* A thread inside a store operation (past its first step).
MidCall(t) == thr[t].op # "none" /\ thr[t].step # FirstStep(thr[t].op)

\* The same program with every store operation running to completion once
\* it has started (threads interleave between operations only).
AtomicCalls == \A t \in Threads : MidCall(t) => thr'[t] # thr[t]
SpecAtomic == Init /\ [][Next /\ AtomicCalls]_vars


\* ------------------------------------------------------- properties
Exists(j) == GetJob(j) # None
StatusOf(j) == GetJob(j)[1].status
\* status, result and error of the job as get_job returns them.
Core(j) == IF Exists(j)
           THEN <<GetJob(j)[1].status, GetJob(j)[1].result, GetJob(j)[1].error>>
           ELSE None

CoreOf(job) == <<job[1].status, job[1].result, job[1].error>>

\* Thread t takes this step.
Steps(t) == thr'[t] # thr[t]
\* The job as the lookup of t's store call in progress found it.
FoundJob(t) ==
    IF thr[t].model = None THEN None
    ELSE IF backend = "sqlite" THEN <<ToJob(thr[t].model[1])>> ELSE thr[t].model
\* The job as t's store call found or, before its lookup, will find it.
Before(t, j) == IF MidCall(t) THEN FoundJob(t) ELSE GetJob(j)
\* This step belongs to the terminal update that takes j out of running.
TransitionStep(j) ==
    \E t \in Threads :
        /\ thr[t].id = j /\ Steps(t) /\ MidCall(t)
        /\ thr[t].op \in {"update_job_success", "update_job_failure",
                          "update_job_timeout"}
        /\ FoundJob(t) # None /\ FoundJob(t)[1].status = RUNNING
\* delete_job has been called for j and has not returned yet.
Deleting(j) == thr[Client].op = "delete_job" /\ thr[Client].id = j

\* C1: once a job's stored status is success, failure or timeout, no later
\* store update changes that status (the job makes its one transition out of
\* running exactly once), in either backend.
C1_TerminalStatusFinal ==
    [][\A j \in JobIds :
         (Exists(j) /\ StatusOf(j) \in Terminal /\ Exists(j)')
             => StatusOf(j)' = StatusOf(j)]_vars

\* C2: a timeout never overwrites a success: in every interleaving of
\* update_job_timeout with update_job_success, once get_job reports success
\* the status stays success, and no step of update_job_timeout changes the
\* record (the timeout update is a no-op).
C2_TimeoutNeverOverwritesSuccess ==
    [][\A j \in JobIds :
         (Exists(j) /\ StatusOf(j) = SUCCESS /\ Exists(j)')
             => /\ StatusOf(j)' = SUCCESS
                /\ \A t \in Threads :
                       (thr[t].op = "update_job_timeout" /\ thr[t].id = j
                        /\ Steps(t)) => GetJob(j)' = GetJob(j)]_vars

\* C3: update_job_failure applied to a job that is already success, failure
\* or timeout leaves the job's status, error and result unchanged.
C3_FailureOverwritesNothing ==
    [][\A t \in Threads, j \in JobIds :
         (thr[t].op = "update_job_failure" /\ thr[t].id = j /\ Steps(t)
          /\ Before(t, j) # None /\ Before(t, j)[1].status \in Terminal)
             => Core(j)' = CoreOf(Before(t, j))]_vars

\* C4: once delete_job has returned True for a job, get_job and
\* get_intermediate_result return nothing for it, whatever writes the job's
\* worker still issues or completes.
C4_DeletedStaysDeleted ==
    \A j \in JobIds :
        deleted[j] => ~Exists(j) /\ GetIntermediateResult(j) = None

\* C5: once a stop has been requested for a running job (its watchdog has
\* timed out, or the job has been deleted), the driver finishes at most the
\* item it is in and starts no further phase (embed, pairs, cluster, merge).
StopRequested(j) == deleted[j] \/ thr[Wd(j)].pc \in {"timeout", "wrapper"}
C5_CooperativeStop ==
    [][\A j \in JobIds :
         (StopRequested(j) /\ thr[Wk(j)].pc = "driver"
          /\ thr'[Wk(j)].pc = "driver" /\ thr'[Wk(j)].ip # thr[Wk(j)].ip)
             => Script[thr'[Wk(j)].ip].kind # "phase"]_vars

\* C6: the snapshot is cleared when the job becomes success and preserved
\* when it becomes failure or timeout: no snapshot is readable for a success
\* job, and while the job is failure or timeout neither its error string nor
\* its snapshot changes.
C6_SnapshotClearedOrPreserved ==
    /\ [](\A j \in JobIds :
            (Exists(j) /\ StatusOf(j) = SUCCESS
             /\ ~(MidCall(Wk(j)) /\ thr[Wk(j)].op = "update_job_success"))
                => GetIntermediateResult(j) = None)
    /\ [][\A j \in JobIds :
            (Exists(j) /\ StatusOf(j) \in {FAILURE, TIMEOUT} /\ Exists(j)'
             /\ ~Deleting(j) /\ ~TransitionStep(j))
                => /\ GetIntermediateResult(j)' = GetIntermediateResult(j)
                   /\ GetJob(j)'[1].error = GetJob(j)[1].error
                   /\ GetJobStatus(j)'[1].intermediate_result
                          = GetJobStatus(j)[1].intermediate_result]_vars

\* C7: the job record is created, with status running, before the work is
\* dispatched, and from the moment create_job returns until a delete_job call
\* for the id, get_job returns a record.
C7_RecordValidUntilDeleted ==
    \A j \in JobIds :
        /\ thr[Wd(j)].pc # "none" => created[j]
        /\ (thr[Client].pc = "submit" /\ thr[Client].id = j)
               => Exists(j) /\ StatusOf(j) = RUNNING
        /\ (created[j] /\ ~deleted[j] /\ ~Deleting(j)) => Exists(j)

\* C8: with a job timeout larger than every run time, every submitted job
\* runs its work: no job is cancelled in the queue or timed out because the
\* pool threads are held by watchdogs.
C8_NoJobStarves ==
    timeout_large =>
        \A j \in JobIds : /\ thr[Wk(j)].pc # "cancelled"
                          /\ thr[Wd(j)].pc \notin {"timeout", "wrapper"}

ReturnsFrom(t, op) ==
    /\ thr[t].op = op /\ Steps(t)
    /\ thr[t].step \in {"remove_future", "del"}
    /\ FoundJob(t) # None /\ FoundJob(t)[1].status = RUNNING
RestartLosingStore ==
    /\ \E t \in PoolThreads : thr[t].pc # "killed"
    /\ thr' = [t \in Threads |-> IF t = Client THEN Idle("idle") ELSE Idle("killed")]
    /\ jobs_mem' = [j \in JobIds |-> FALSE]
    /\ running_futures' = [j \in JobIds |-> FALSE]
    /\ queue' = <<>>
    /\ rows' = [j \in JobIds |-> None]
    /\ job_file' = [j \in JobIds |-> None]
    /\ intermediate_file' = [j \in JobIds |-> None]
    /\ UNCHANGED <<algoVars, dedupe, backend, max_workers, timeout_large, obj, created,
                   job_id_var, deleted>>

Restart ==
    /\ \E t \in PoolThreads : thr[t].pc # "killed"
    /\ thr' = [t \in Threads |-> IF t = Client THEN Idle("idle") ELSE Idle("killed")]
    /\ jobs_mem' = [j \in JobIds |-> FALSE]
    /\ running_futures' = [j \in JobIds |-> FALSE]
    /\ queue' = <<>>
    /\ UNCHANGED <<algoVars, dedupe, backend, max_workers, timeout_large, rows, obj, job_file,
                   intermediate_file, created, job_id_var, deleted>>

NextRestart == Next \/ Restart
SpecRestart == Init /\ [][NextRestart]_vars

\* This step is a restart.
Restarts ==
    /\ \E t \in PoolThreads : thr[t].pc # "killed"
    /\ \A t \in PoolThreads : thr'[t].pc = "killed"
\* A terminal update of j has started and not returned.
TerminalUpdateInFlight(j) ==
    \E t \in Threads :
        /\ thr[t].id = j /\ MidCall(t)
        /\ thr[t].op \in {"update_job_success", "update_job_failure",
                          "update_job_timeout"}

C12_SuccessCarriesResult ==
    \A j \in JobIds :
        (GetJobStatus(j) # None /\ GetJobStatus(j)[1].status = SUCCESS)
            => GetJobStatus(j)[1].results = ResultOf(j)

\* ------------------------------------------------------- the two stores
\* Both backends driven by one caller with the same sequence of store
\* operations, each call run from entry to return: rows is the sqlite
\* store, jobs_mem/obj/job_file/intermediate_file the filesystem store.
SQLiteGetJob(j) == IF rows[j] = None THEN None ELSE <<ToJob(rows[j][1])>>
FSGetJob(j) == IF jobs_mem[j] THEN <<obj[j]>> ELSE LoadJobFromDisk(j)
SQLiteGetIntermediateResult(j) ==
    IF SQLiteGetJob(j) = None THEN None
    ELSE SQLiteGetJob(j)[1].intermediate_result
FSGetIntermediateResult(j) ==
    IF jobs_mem[j] /\ Truthy(obj[j].intermediate_result)
    THEN obj[j].intermediate_result
    ELSE IF intermediate_file[j] \notin {None, EmptyFile}
         THEN Loads(intermediate_file[j])
         ELSE None
\* What delete_job(j) returns when called in this state.
SQLiteDeleteReturns(j) == rows[j] # None
FSDeleteReturns(j) == jobs_mem[j] \/ job_file[j] # None
SQLiteActiveJobCount ==
    Cardinality({j \in JobIds : rows[j] # None /\ rows[j][1].status = RUNNING})
FSActiveJobCount == Cardinality({j \in JobIds : jobs_mem[j]})

\* Arguments the caller passes.
Errors == {<<"EmbeddingError">>}
Progresses == {<<"embeddings", 5>>, <<"completion", 95>>}

BothFrame == UNCHANGED <<algoVars, dedupe, backend, max_workers, timeout_large, running_futures,
                         queue, thr, job_id_var, deleted>>

Both_create_job(j) ==
    /\ FreshId(j)
    /\ rows' = [rows EXCEPT ![j] = <<NewRow>>]
    /\ jobs_mem' = [jobs_mem EXCEPT ![j] = TRUE]
    /\ obj' = [obj EXCEPT ![j] = NewJob]
    /\ created' = [created EXCEPT ![j] = TRUE]
    /\ UNCHANGED <<job_file, intermediate_file>>
    /\ BothFrame

\* A filesystem terminal update of a job found in self._jobs: set the
\* fields, _persist_job, (on success) _cleanup_intermediate, del.
FSTerminal(j, job, clear) ==
    IF jobs_mem[j]
    THEN /\ obj' = [obj EXCEPT ![j] = job]
         /\ job_file' = [job_file EXCEPT ![j] = <<JobData(job)>>]
         /\ intermediate_file' = IF clear
                                 THEN [intermediate_file EXCEPT ![j] = None]
                                 ELSE intermediate_file
         /\ jobs_mem' = [jobs_mem EXCEPT ![j] = FALSE]
    ELSE UNCHANGED <<obj, job_file, intermediate_file, jobs_mem>>

Both_update_job_success(j) ==
    /\ rows' = [rows EXCEPT ![j] =
                   IF @ = None THEN None
                   ELSE <<[@[1] EXCEPT !.status = SUCCESS,
                                       !.result = Dumps(ResultOf(j)),
                                       !.intermediate_result = None]>>]
    /\ FSTerminal(j, [obj[j] EXCEPT !.status = SUCCESS, !.result = ResultOf(j)],
                  TRUE)
    /\ UNCHANGED created /\ BothFrame

Both_update_job_failure(j, e) ==
    /\ rows' = [rows EXCEPT ![j] =
                   IF @ = None THEN None
                   ELSE <<[@[1] EXCEPT !.status = FAILURE, !.error = e]>>]
    /\ FSTerminal(j, [obj[j] EXCEPT !.status = FAILURE, !.error = e], FALSE)
    /\ UNCHANGED created /\ BothFrame

Both_update_job_timeout(j) ==
    /\ rows' = [rows EXCEPT ![j] =
                   IF @ = None \/ @[1].status = SUCCESS THEN @
                   ELSE <<[@[1] EXCEPT !.status = TIMEOUT,
                                       !.error = TimeoutError]>>]
    /\ IF jobs_mem[j] /\ obj[j].status = SUCCESS
       THEN UNCHANGED <<obj, job_file, intermediate_file, jobs_mem>>
       ELSE FSTerminal(j, [obj[j] EXCEPT !.status = TIMEOUT,
                                         !.error = TimeoutError], FALSE)
    /\ UNCHANGED created /\ BothFrame

Both_update_job_progress(j, p) ==
    /\ rows' = [rows EXCEPT ![j] =
                   IF ProgressAllowed(@)
                   THEN <<[@[1] EXCEPT !.progress = p[2],
                                       !.progress_phase = p[1],
                                       !.progress_details = Dumps(DetailsOf(p[1]))]>>
                   ELSE @]
    /\ obj' = IF jobs_mem[j]
              THEN [obj EXCEPT ![j].progress = p[2], ![j].progress_phase = p[1],
                               ![j].progress_details = DetailsOf(p[1])]
              ELSE obj
    /\ UNCHANGED <<jobs_mem, job_file, intermediate_file, created>>
    /\ BothFrame

Both_save_intermediate_result(j, snap) ==
    /\ rows' = [rows EXCEPT ![j] =
                   IF @ = None THEN None
                   ELSE <<[@[1] EXCEPT !.intermediate_result = Dumps(snap)]>>]
    /\ IF jobs_mem[j]
       THEN /\ obj' = [obj EXCEPT ![j].intermediate_result = snap]
            /\ intermediate_file' = [intermediate_file EXCEPT ![j] = Dumps(snap)]
       ELSE UNCHANGED <<obj, intermediate_file>>
    /\ UNCHANGED <<jobs_mem, job_file, created>>
    /\ BothFrame

Both_delete_job(j) ==
    /\ rows' = [rows EXCEPT ![j] = None]
    /\ jobs_mem' = [jobs_mem EXCEPT ![j] = FALSE]
    /\ job_file' = [job_file EXCEPT ![j] = None]
    /\ intermediate_file' = [intermediate_file EXCEPT ![j] = None]
    /\ UNCHANGED <<obj, created>>
    /\ BothFrame

NextStores ==
    \/ \E j \in JobIds : Both_create_job(j)
    \/ \E j \in JobIds : Both_update_job_success(j)
    \/ \E j \in JobIds, e \in Errors : Both_update_job_failure(j, e)
    \/ \E j \in JobIds : Both_update_job_timeout(j)
    \/ \E j \in JobIds, p \in Progresses : Both_update_job_progress(j, p)
    \/ \E j \in JobIds, it \in 1..MaxIterations :
           Both_save_intermediate_result(j, SnapshotOf(it))
    \/ \E j \in JobIds : Both_delete_job(j)

SpecStores == Init /\ [][NextStores]_vars

\* C13: the two backends expose the same contract: after the same sequence
\* of store operations, get_job (present or absent, status, result, error),
\* get_intermediate_result, the value delete_job returns and
\* get_active_job_count are the same in both.
C13_BackendsAgree ==
    /\ SQLiteActiveJobCount = FSActiveJobCount
    /\ \A j \in JobIds :
          /\ (SQLiteGetJob(j) = None) = (FSGetJob(j) = None)
          /\ SQLiteGetJob(j) # None
                 => CoreOf(SQLiteGetJob(j)) = CoreOf(FSGetJob(j))
          /\ SQLiteGetIntermediateResult(j) = FSGetIntermediateResult(j)
          /\ SQLiteDeleteReturns(j) = FSDeleteReturns(j)

\* ------------------------------------------------------- deduplication
\* DedupeService.process_dedupe_request and DedupeAlgorithm.run_dedupe on
\* one request.  What the embedding model and the LLM answer is chosen by
\* the environment: which blocks of the master list are similar (the
\* clusters), whether a merge call fails after its retries, and how many
\* merged contents it returns.
MaxBlocks == 4
\* Blocks of a request that are hidden, exported or of type "merged".
MaxMarked == 1
MaxRequestIterations == 2
MaxMergedContents == 2
\* settings.max_cluster_size_for_llm, scaled down to the size of the model.
MAX_CLUSTER_SIZE_FOR_LLM == 2

\* Every variable of the job manager, which a dedupe step leaves alone.
jobVars == <<backend, max_workers, timeout_large, rows, jobs_mem, obj, job_file,
             intermediate_file, running_futures, queue, thr, created,
             job_id_var, deleted>>

\* BlockifyResult: the input block at position k carries the identifier k.
InputTypes == {"blockify", "merged"}
InputBlock(k, type, hidden, exported) ==
    [type |-> type, blockifyResultUUID |-> k, hidden |-> hidden,
     exported |-> exported, blockifyResultsUsed |-> <<>>]
Flags == {<<FALSE, FALSE>>, <<TRUE, FALSE>>, <<FALSE, TRUE>>}
\* AutoDistillRequest.results: min_length=1.
Plain == <<"blockify", <<FALSE, FALSE>>>>
Requests ==
    UNION {{req \in [1..n -> InputTypes \X Flags] :
               Cardinality({k \in 1..n : req[k] # Plain}) <= MaxMarked}
           : n \in 1..MaxBlocks}
BlocksOf(req) ==
    [k \in DOMAIN req |-> InputBlock(k, req[k][1], req[k][2][1], req[k][2][2])]

\* str(uuid.uuid4()): the n-th identifier the run generates.
FreshUUID(n) == MaxBlocks + n

UUIDsOf(bs) == {bs[i].blockifyResultUUID : i \in DOMAIN bs}
UUIDSeq(bs) == [i \in DOMAIN bs |-> bs[i].blockifyResultUUID]
IsActive(b) == ~b.hidden /\ ~b.exported
IsMerged(b) == b.type = "merged"

Min(S) == CHOOSE x \in S : \A y \in S : x <= y
RECURSIVE Sorted(_)
Sorted(S) == IF S = {} THEN <<>> ELSE <<Min(S)>> \o Sorted(S \ {Min(S)})
\* [master_list[i] for i in cluster_indices]
Pick(list, indices) == [k \in 1..Cardinality(indices) |-> list[Sorted(indices)[k]]]

\* round(num / den * 100, 2), in hundredths of a percent: the nearest
\* integer to 10000 * num / den.
RoundPercent(num, den) == (2 * 10000 * num + den) \div (2 * den)

\* DedupeAlgorithm._create_stats; the percentage in hundredths.
CreateStats(starting_count, final_count, merged_count) ==
    [startingBlockCount |-> starting_count,
     finalBlockCount |-> final_count,
     blocksRemoved |-> starting_count - final_count + merged_count,
     blocksAdded |-> merged_count,
     blockReductionPercent |->
         IF starting_count > 0
         THEN RoundPercent(starting_count - final_count, starting_count)
         ELSE 0]

\* DedupeService._contents_to_blocks for n contents: each merged block gets
\* a new identifier and lists the identifiers of all source blocks.
ContentsToBlocks(n, source_blocks, first) ==
    [i \in 1..n |->
        [type |-> "merged", blockifyResultUUID |-> FreshUUID(first + i),
         hidden |-> FALSE, exported |-> FALSE,
         blockifyResultsUsed |-> UUIDSeq(source_blocks)]]

\* run_dedupe up to the iteration loop (algorithm.py 82-119).
Dedupe_request(req, iterations, parallel) ==
    /\ dedupe.pc = "none"
    /\ LET blocks == BlocksOf(req)
           active_blocks == SelectSeq(blocks, IsActive)
           n == Len(active_blocks)
           d == [NoRequest EXCEPT !.blocks = blocks,
                                  !.max_iterations = iterations,
                                  !.parallel = parallel,
                                  !.active_blocks = active_blocks,
                                  !.starting_count = n]
       IN  dedupe' = IF n < 2
                     THEN [d EXCEPT !.pc = "payload",
                                    !.final_blocks = active_blocks,
                                    !.stats = CreateStats(n, n, 0)]
                     ELSE [d EXCEPT !.pc = "iteration",
                                    !.called = TRUE,
                                    !.master_list = active_blocks,
                                    !.iteration = 1]
    /\ UNCHANGED <<jobVars, algoVars>>

\* The mergeable clusters _create_clusters can return for a master list of
\* n blocks: disjoint sets of two or more indices.
ClusterChoices(n) ==
    {P \in SUBSET {c \in SUBSET (1..n) : Cardinality(c) >= 2} :
        \A c1, c2 \in P : c1 # c2 => c1 \cap c2 = {}}

\* Top of the loop body (algorithm.py 121-177): the breaks, the similar
\* pairs and the clusters.
Dedupe_find_clusters(clusters) ==
    /\ dedupe.pc = "iteration"
    /\ clusters \in ClusterChoices(Len(dedupe.master_list))
    /\ dedupe' =
          IF dedupe.iteration > dedupe.max_iterations
             \/ Len(dedupe.master_list) < 2 \/ clusters = {}
          THEN [dedupe EXCEPT !.pc = "final"]
          ELSE [dedupe EXCEPT
                   !.pc = "merge",
                   !.found_pairs = TRUE,
                   !.pending = clusters,
                   !.merged_results = <<>>,
                   !.hidden_uuids_this_iteration = {},
                   !.items_not_in_clusters = 1..Len(dedupe.master_list),
                   !.failed_cluster_indices = {},
                   !.failed_leaf_uuids = {}]
    /\ UNCHANGED <<jobVars, algoVars>>

\* A loop that takes the blocks of a failed cluster out of the master list
\* as if they had been merged.
ClusterDoneDroppingFailed(d, c, cluster_blocks, merge_results) ==
    [d EXCEPT
        !.pending = @ \ {c},
        !.called = TRUE,
        !.uuids = @ + Len(merge_results),
        !.merged_results = @ \o merge_results,
        !.items_not_in_clusters = @ \ c,
        !.hidden_uuids_this_iteration = @ \cup UUIDsOf(cluster_blocks),
        !.failed_cluster_indices =
            IF merge_results = <<>> THEN @ \cup c ELSE @]

\* What the loop at algorithm.py 237-250 does with the result of one
\* cluster: merge_results is what llm_merge_func returned (<<>> when it
\* raised or returned nothing).
ClusterDone(d, c, cluster_blocks, merge_results) ==
    IF merge_results # <<>>
    THEN [d EXCEPT
             !.pending = @ \ {c},
             !.called = TRUE,
             !.uuids = @ + Len(merge_results),
             !.merged_results = @ \o merge_results,
             !.items_not_in_clusters = @ \ c,
             !.hidden_uuids_this_iteration = @ \cup UUIDsOf(cluster_blocks)]
    ELSE [d EXCEPT
             !.pending = @ \ {c},
             !.called = TRUE,
             !.failed_cluster_indices = @ \cup c]

\* process_single_cluster on a cluster one LLM call can take
\* (_single_llm_merge_to_blocks): n = 0 when the call fails after its
\* retries, else the number of merged contents it returns.
Dedupe_merge_cluster(c, n) ==
    /\ dedupe.pc = "merge"
    /\ c \in dedupe.pending
    /\ Cardinality(c) <= MAX_CLUSTER_SIZE_FOR_LLM
    /\ LET cluster_blocks == Pick(dedupe.master_list, c)
       IN  dedupe' = ClusterDone(dedupe, c, cluster_blocks,
                         ContentsToBlocks(n, cluster_blocks, dedupe.uuids))
    /\ UNCHANGED <<jobVars, algoVars>>

\* int(math.floor(math.sqrt(n) * 2))
FloorSqrtTimes2(n) == CHOOSE r \in 0..(4 * n) : r * r <= 4 * n /\ 4 * n < (r + 1) * (r + 1)
Max2(a, b) == IF a >= b THEN a ELSE b
Min2(a, b) == IF a <= b THEN a ELSE b
\* The even subclusters of _process_large_cluster_recursively (service.py
\* 210-231) as sets of positions in the UUID-sorted cluster.
Subclusters(n) ==
    LET target_size == Min2(MAX_CLUSTER_SIZE_FOR_LLM, Max2(5, FloorSqrtTimes2(n)))
        num_subclusters == (n + target_size - 1) \div target_size
        slice(i) == {k \in 1..n : /\ (i * n) \div num_subclusters < k
                                  /\ k <= ((i + 1) * n) \div num_subclusters}
    IN  {slice(i) : i \in 0..(num_subclusters - 1)} \ {{}}

\* The numbers of contents the merger can return once the subclusters
\* produced total contents (service.py 267-284): nothing, the one content,
\* the contents as they are, or what a further merge of them returns
\* (0: that merge raised).
FinalContents(total) ==
    IF total <= 1 THEN {total}
    ELSE IF total > MAX_CLUSTER_SIZE_FOR_LLM THEN 0..MaxMergedContents
    ELSE {total} \cup 0..MaxMergedContents

RECURSIVE Sum(_, _)
Sum(f, S) == IF S = {} THEN 0
             ELSE LET x == CHOOSE y \in S : TRUE IN f[x] + Sum(f, S \ {x})

\* process_single_cluster on a cluster larger than one LLM call takes
\* (_process_large_cluster_recursively at depth 0).  leaf[sc] is what the
\* call for subcluster sc produced: 0 when its LLM merge failed after the
\* retries, else its number of contents (1, without a call, for a
\* subcluster of one block).  In the parallel branch a failed subcluster
\* contributes no content; in the sequential one its exception ends the
\* whole merge.
Dedupe_merge_large_cluster(c, leaf, final) ==
    /\ dedupe.pc = "merge"
    /\ c \in dedupe.pending
    /\ Cardinality(c) > MAX_CLUSTER_SIZE_FOR_LLM
    /\ LET cluster_blocks == Pick(dedupe.master_list, c)
           n == Len(cluster_blocks)
           sorted_uuids == Sorted(UUIDsOf(cluster_blocks))
           subs == Subclusters(n)
           failed == {sc \in subs : leaf[sc] = 0}
           in_parallel == dedupe.parallel /\ Cardinality(subs) > 1
           raised == ~in_parallel /\ failed # {}
           total == Sum(leaf, subs)
           d == [dedupe EXCEPT !.failed_leaf_uuids =
                    @ \cup {sorted_uuids[k] : k \in UNION failed}]
       IN  /\ leaf \in [subs -> 0..MaxMergedContents]
           /\ \A sc \in subs : Cardinality(sc) = 1 => leaf[sc] = 1
           /\ final \in (IF raised THEN {0} ELSE FinalContents(total))
           /\ dedupe' = ClusterDone(d, c, cluster_blocks,
                            ContentsToBlocks(final, cluster_blocks, dedupe.uuids))
    /\ UNCHANGED <<jobVars, algoVars>>

\* A snapshot that holds the merged blocks of the last iteration only.
BuildIntermediateResultOfIteration(d, merged_blocks) ==
    [status |-> "partial",
     stats |-> CreateStats(d.starting_count, Len(d.merged_results),
                           Len(d.merged_results)),
     results |-> [k \in DOMAIN d.active_blocks |->
                     [d.active_blocks[k] EXCEPT !.hidden = TRUE]]
                 \o d.merged_results]
\* _build_intermediate_result(active_blocks, all_hidden_uuids,
\* all_merged_blocks, starting_count): the active blocks marked hidden, then
\* the merged blocks.
BuildIntermediateResult(d, merged_blocks) ==
    [status |-> "partial",
     stats |-> CreateStats(d.starting_count, Len(merged_blocks),
                           Len(merged_blocks)),
     results |-> [k \in DOMAIN d.active_blocks |->
                     [d.active_blocks[k] EXCEPT !.hidden = TRUE]]
                 \o merged_blocks]

\* The rest of the loop body once every cluster has completed (algorithm.py
\* 252-309).  stop: no merge succeeded and the threshold is at its maximum.
\* An iteration that does not stop hands the snapshot to
\* save_intermediate_func when a merged block exists; the save is taken to
\* return (its exception would be logged and swallowed).
Dedupe_end_iteration(stop) ==
    /\ dedupe.pc = "merge"
    /\ dedupe.pending = {}
    /\ stop => dedupe.merged_results = <<>>
    /\ LET all_merged_blocks == dedupe.all_merged_blocks \o dedupe.merged_results
       IN  dedupe' = [dedupe EXCEPT
              !.all_hidden_uuids = @ \cup dedupe.hidden_uuids_this_iteration,
              !.all_merged_blocks = all_merged_blocks,
              !.master_list = Pick(@, dedupe.items_not_in_clusters)
                                  \o dedupe.merged_results,
              !.intermediate =
                  IF ~stop /\ all_merged_blocks # <<>>
                  THEN <<BuildIntermediateResult(dedupe, all_merged_blocks)>>
                  ELSE @,
              !.iteration = @ + 1,
              !.pc = IF stop THEN "final" ELSE "iteration"]
    /\ UNCHANGED <<jobVars, algoVars>>

\* Phase 4 of run_dedupe (algorithm.py 311-328).
Dedupe_finish_run ==
    /\ dedupe.pc = "final"
    /\ LET kept == SelectSeq(dedupe.active_blocks,
                       LAMBDA b : b.blockifyResultUUID \notin dedupe.all_hidden_uuids)
           final_blocks == kept \o dedupe.all_merged_blocks
       IN  dedupe' = [dedupe EXCEPT
               !.pc = "payload",
               !.final_blocks = final_blocks,
               !.stats = CreateStats(dedupe.starting_count, Len(final_blocks),
                                     Len(dedupe.all_merged_blocks))]
    /\ UNCHANGED <<jobVars, algoVars>>

\* A payload that carries hidden copies only of the blocks the run worked on.
OriginalHiddenBlocksActiveOnly(blocks_dict) ==
    LET active == SelectSeq(blocks_dict, IsActive)
    IN  [k \in DOMAIN active |-> [active[k] EXCEPT !.hidden = TRUE]]

\* original_hidden_blocks: a copy of every block of the request, marked
\* hidden, in request order (service.py 98-104).
OriginalHiddenBlocks(blocks_dict) ==
    [k \in DOMAIN blocks_dict |-> [blocks_dict[k] EXCEPT !.hidden = TRUE]]

\* process_dedupe_request after run_dedupe returned (service.py 97-144).
Dedupe_build_payload ==
    /\ dedupe.pc = "payload"
    /\ LET original_hidden_blocks == OriginalHiddenBlocks(dedupe.blocks)
           new_output_blocks == SelectSeq(dedupe.final_blocks, IsMerged)
           starting_count == dedupe.stats.startingBlockCount
           final_count == Len(new_output_blocks)
       IN  dedupe' = [dedupe EXCEPT
               !.pc = "done",
               !.response =
                   [status |-> "success",
                    stats |-> [startingBlockCount |-> starting_count,
                               finalBlockCount |-> final_count,
                               blocksRemoved |-> starting_count,
                               blocksAdded |-> final_count,
                               blockReductionPercent |->
                                   IF starting_count > 0
                                   THEN RoundPercent(starting_count - final_count,
                                                     starting_count)
                                   ELSE 0],
                    results |-> original_hidden_blocks \o new_output_blocks]]
    /\ UNCHANGED <<jobVars, algoVars>>

NextDedupe ==
    \/ \E req \in Requests, iterations \in 1..MaxRequestIterations,
          parallel \in BOOLEAN : Dedupe_request(req, iterations, parallel)
    \/ \E clusters \in ClusterChoices(Len(dedupe.master_list)) :
          Dedupe_find_clusters(clusters)
    \/ \E c \in dedupe.pending, n \in 0..MaxMergedContents :
          Dedupe_merge_cluster(c, n)
    \/ \E c \in dedupe.pending :
          \E leaf \in [Subclusters(Cardinality(c)) -> 0..MaxMergedContents],
             final \in 0..(MaxMergedContents * MaxBlocks) :
                Dedupe_merge_large_cluster(c, leaf, final)
    \/ \E stop \in BOOLEAN : Dedupe_end_iteration(stop)
    \/ Dedupe_finish_run
    \/ Dedupe_build_payload

InitDedupe ==
    /\ Init
    /\ backend = "sqlite" /\ max_workers = MaxWorkers /\ timeout_large

SpecDedupe == InitDedupe /\ [][NextDedupe]_vars

(***************************************************************************)
(* Properties of the deduplication run, checked under SpecDedupe.          *)
(***************************************************************************)
Responded == dedupe.pc = "done"
Range(seq) == {seq[k] : k \in DOMAIN seq}
\* The blocks the response adds after the hidden copies of the input.
ReturnedMerged ==
    {dedupe.response.results[k] :
        k \in (Len(dedupe.blocks) + 1)..Len(dedupe.response.results)}
ActiveInputUUIDs == UUIDsOf(dedupe.active_blocks)

\* C14: in the result of a run, the union of blockifyResultsUsed over all
\* returned merged blocks is a subset of the identifiers of the input
\* blocks that were neither hidden nor exported.
C14_SourcesAreActiveInputs ==
    Responded => \A b \in ReturnedMerged :
                Range(b.blockifyResultsUsed) \subseteq ActiveInputUUIDs

\* The hidden copies of the input blocks at the head of the response.
HiddenCopies ==
    {dedupe.response.results[k] : k \in 1..Len(dedupe.blocks)}

\* C15: in the final result no block identifier occurs both as a hidden
\* input block and as a non-hidden merged output block.
C15_HiddenAndMergedDisjoint ==
    Responded =>
        \A h \in HiddenCopies, m \in ReturnedMerged :
            (h.hidden /\ ~m.hidden) => h.blockifyResultUUID # m.blockifyResultUUID

\* C16: the final response holds every input block exactly once with
\* hidden=true, in input order, whatever its flags were and whether or not
\* it was merged, and after them only merged blocks.
C16_ResponseListsAllInputs ==
    Responded =>
        LET results == dedupe.response.results
            n == Len(dedupe.blocks)
        IN  /\ Len(results) >= n
            /\ \A k \in 1..n :
                  /\ results[k] = [dedupe.blocks[k] EXCEPT !.hidden = TRUE]
                  /\ Cardinality({i \in DOMAIN results :
                        /\ results[i].hidden
                        /\ results[i].blockifyResultUUID
                               = dedupe.blocks[k].blockifyResultUUID}) = 1
            /\ \A i \in (n + 1)..Len(results) : results[i].type = "merged"

\* A response to a request that held a block the run did not work on
\* (already hidden or exported), after a merge of the other blocks.
C16_Witness ==
    /\ Responded
    /\ \E k \in DOMAIN dedupe.blocks : ~IsActive(dedupe.blocks[k])
    /\ dedupe.all_merged_blocks # <<>>
    /\ Len(dedupe.response.results) > Len(dedupe.blocks)
    /\ C16_ResponseListsAllInputs

\* The request had fewer than two blocks that were neither hidden nor
\* exported.
FewActive == Len(dedupe.active_blocks) < 2

\* C17: with zero or one active block the run returns without an
\* embedding, similarity or LLM call, the response is exactly the input
\* blocks marked hidden, blocksAdded = 0 and blockReductionPercent = 0.
C17_ImmediateReturn ==
    (Responded /\ FewActive) =>
        /\ ~dedupe.called
        /\ dedupe.response.results = OriginalHiddenBlocks(dedupe.blocks)
        /\ dedupe.response.stats.blocksAdded = 0
        /\ dedupe.response.stats.blockReductionPercent = 0

\* C18: after a run on a corpus in which at least one pair of blocks was at
\* or above the initial threshold, stats.startingBlockCount >=
\* stats.finalBlockCount, whatever number of merged blocks the LLM returns
\* per cluster and whatever the iteration budget.
C18_FinalCountNeverGrows ==
    (Responded /\ dedupe.found_pairs) =>
        dedupe.response.stats.startingBlockCount
            >= dedupe.response.stats.finalBlockCount

\* The merge of cluster c completes in this step and has failed.
MergeFails(c) ==
    /\ dedupe.pc = "merge"
    /\ c \in dedupe.pending
    /\ c \notin dedupe'.pending
    /\ c \subseteq dedupe'.failed_cluster_indices
\* The step that closes an iteration.
IterationEnds == dedupe.pc = "merge" /\ dedupe'.pc # "merge"

\* C19: a failed merge of a cluster is recovered locally.  The step in
\* which it fails removes no block from the active set, adds none to the
\* merged-away set, leaves the other clusters of the iteration to be
\* processed and does not end the run; and when the iteration ends, every
\* block of a failed cluster is in the master list of the next iteration
\* and is not among the merged-away identifiers.
C19_FailedClusterRecoveredLocally ==
    [][/\ \A c \in SUBSET (1..Len(dedupe.master_list)) :
             MergeFails(c) =>
                /\ dedupe'.items_not_in_clusters = dedupe.items_not_in_clusters
                /\ dedupe'.hidden_uuids_this_iteration
                       = dedupe.hidden_uuids_this_iteration
                /\ dedupe'.merged_results = dedupe.merged_results
                /\ dedupe'.master_list = dedupe.master_list
                /\ dedupe'.pending = dedupe.pending \ {c}
                /\ dedupe'.pc = "merge"
       /\ IterationEnds =>
             \A i \in dedupe.failed_cluster_indices :
                /\ dedupe.master_list[i] \in Range(dedupe'.master_list)
                /\ dedupe.master_list[i].blockifyResultUUID
                       \notin dedupe'.all_hidden_uuids
                /\ dedupe'.pc \in {"iteration", "final"}
      ]_vars

\* An iteration in which one cluster failed and another was merged has
\* ended, and the failed cluster's blocks are in the next master list.
C19_Witness ==
    /\ dedupe.pc = "iteration"
    /\ dedupe.iteration = 2
    /\ dedupe.failed_cluster_indices # {}
    /\ dedupe.merged_results # <<>>
    /\ Len(dedupe.master_list) >= 3

\* C20: when the LLM merge of a leaf subcluster fails after its retries
\* inside the hierarchical merger, the blocks of that subcluster are left
\* un-merged in this iteration: they are not added to the merged-away set
\* and they stay in the active set for the next iteration, in the parallel
\* and in the sequential branch.
C20_FailedLeafLeftUnmerged ==
    dedupe.pc = "merge" =>
        \A u \in dedupe.failed_leaf_uuids :
            /\ u \notin dedupe.hidden_uuids_this_iteration
            /\ \E i \in dedupe.items_not_in_clusters :
                  dedupe.master_list[i].blockifyResultUUID = u

(***************************************************************************)
(* The cluster merger of one iteration: the pool of run_dedupe that        *)
(* processes the clusters, and under it the invocations of                 *)
(* _process_large_cluster_recursively with the pools they open.  A cluster *)
(* is its number of blocks.  An invocation is a node named by its path:    *)
(* <<c>> is the worker function for cluster c, p \o <<i>> the invocation   *)
(* for subcluster i made by p.  The recursion of an invocation on its own  *)
(* combined results is a tail call and re-enters the same node.            *)
(***************************************************************************)
MaxClusters == 2
MaxClusterSize == 4
MaxParallel == 2
\* settings.max_recursion_depth, scaled down to the size of the model.
MAX_RECURSION_DEPTH == 2

\* Every variable but merger.
notMergerVars == <<jobVars, dedupe, llm, loop, embed, search, clustering, split>>

Front(path) == SubSeq(path, 1, Len(path) - 1)
Children(path) ==
    {q \in DOMAIN merger.nodes : Len(q) = Len(path) + 1 /\ Front(q) = path}
Node(n, depth, pc) ==
    [n |-> n, depth |-> depth, pc |-> pc, sent |-> 0, mode |-> "none",
     todo |-> <<>>, total |-> 0, results |-> 0, raised |-> FALSE]

\* The sizes of the subclusters an invocation on n blocks makes, in order.
SubclusterSizes(n) ==
    LET subs == Subclusters(n)
        firsts == Sorted({Min(sc) : sc \in subs})
    IN  [i \in 1..Cardinality(subs) |->
            Cardinality(CHOOSE sc \in subs : Min(sc) = firsts[i])]

\* The mergeable clusters of an iteration and settings.llm_parallel_threads.
ClusterLists ==
    UNION {[1..k -> 2..MaxClusterSize] : k \in 1..MaxClusters}

\* The iteration submits process_single_cluster for every mergeable cluster
\* to a pool of LLM_PARALLEL_THREADS workers (algorithm.py 229-236).
Merger_submit_clusters(sizes, threads) ==
    /\ merger.pc = "none"
    /\ merger' = [pc |-> "run",
                  parallel_threads |-> threads,
                  nodes |-> [q \in {<<c>> : c \in 1..Len(sizes)} |->
                                Node(sizes[q[1]], 0, "queued")]]
    /\ UNCHANGED notMergerVars

\* A forced merge that sends the whole cluster.
ForcedMergeWhole(n) == n
\* len(cluster_blocks[:MAX_CLUSTER_SIZE_FOR_LLM]), the blocks the forced
\* merge at the depth limit sends.
ForcedMergeSize(n) == Min2(n, MAX_CLUSTER_SIZE_FOR_LLM)

\* A worker of the pool that holds node path takes it: at most
\* max_workers = LLM_PARALLEL_THREADS tasks of one pool run at a time.
Merger_worker_takes(path) ==
    /\ merger.pc = "run"
    /\ path \in DOMAIN merger.nodes
    /\ merger.nodes[path].pc = "queued"
    /\ Cardinality({q \in DOMAIN merger.nodes :
            /\ Len(q) = Len(path) /\ Front(q) = Front(path)
            /\ merger.nodes[q].pc \in {"entering", "calling", "waiting"}})
          < merger.parallel_threads
    /\ merger' = [merger EXCEPT !.nodes[path].pc = "entering"]
    /\ UNCHANGED notMergerVars

\* The head of _merge_cluster_with_llm (for a cluster) and of
\* _process_large_cluster_recursively: the base cases, the forced merge at
\* the depth limit, the single merge, or the split into subclusters, which
\* are submitted to a new pool when LLM_PARALLEL_THREADS > 1 and there is
\* more than one of them, and else called one after the other.
Merger_enter(path) ==
    /\ merger.pc = "run"
    /\ path \in DOMAIN merger.nodes
    /\ merger.nodes[path].pc = "entering"
    /\ LET nd == merger.nodes[path]
           n == nd.n
           sizes == SubclusterSizes(n)
           in_parallel == merger.parallel_threads > 1 /\ Len(sizes) > 1
       IN  merger' =
             IF n < 2
             THEN [merger EXCEPT !.nodes[path] =
                      [nd EXCEPT !.pc = "done", !.results = n]]
             ELSE IF Len(path) = 1 /\ nd.depth = 0 /\ n <= MAX_CLUSTER_SIZE_FOR_LLM
             THEN [merger EXCEPT !.nodes[path] =
                      [nd EXCEPT !.pc = "calling", !.sent = n]]
             ELSE IF nd.depth >= MAX_RECURSION_DEPTH
             THEN [merger EXCEPT !.nodes[path] =
                      [nd EXCEPT !.pc = "calling",
                                 !.sent = ForcedMergeSize(n)]]
             ELSE IF n <= MAX_CLUSTER_SIZE_FOR_LLM
             THEN [merger EXCEPT !.nodes[path] =
                      [nd EXCEPT !.pc = "calling", !.sent = n]]
             ELSE IF in_parallel
             THEN [merger EXCEPT !.nodes =
                      [q \in {path \o <<i>> : i \in 1..Len(sizes)} |->
                          Node(sizes[q[Len(q)]], nd.depth + 1, "queued")]
                      @@ [@ EXCEPT ![path] =
                            [nd EXCEPT !.pc = "waiting", !.mode = "par",
                                       !.total = 0]]]
             ELSE [merger EXCEPT !.nodes[path] =
                      [nd EXCEPT !.pc = "waiting", !.mode = "seq",
                                 !.todo = sizes, !.total = 0]]
    /\ UNCHANGED notMergerVars

\* _single_llm_merge returns r merged contents, or raises after its retries
\* (r = 0).
Merger_llm_returns(path, r) ==
    /\ merger.pc = "run"
    /\ path \in DOMAIN merger.nodes
    /\ merger.nodes[path].pc = "calling"
    /\ merger' = [merger EXCEPT !.nodes[path] =
                     [@ EXCEPT !.pc = "done", !.sent = 0, !.results = r,
                               !.raised = (r = 0)]]
    /\ UNCHANGED notMergerVars

\* The sequential branch calls the invocation for the next subcluster
\* (service.py 260-265).
Merger_call_next(path) ==
    /\ merger.pc = "run"
    /\ path \in DOMAIN merger.nodes
    /\ merger.nodes[path].pc = "waiting"
    /\ merger.nodes[path].mode = "seq"
    /\ merger.nodes[path].todo # <<>>
    /\ Children(path) = {}
    /\ LET nd == merger.nodes[path]
       IN  merger' = [merger EXCEPT !.nodes =
              (path \o <<1>> :> Node(Head(nd.todo), nd.depth + 1, "entering"))
              @@ [@ EXCEPT ![path] = [nd EXCEPT !.todo = Tail(nd.todo)]]]
    /\ UNCHANGED notMergerVars

\* A recursion on the combined results that stays at the caller's depth.
CombineAtSameDepth(nd, total, similar) ==
    IF total > MAX_CLUSTER_SIZE_FOR_LLM \/ (total > 1 /\ similar)
    THEN [Node(total, nd.depth, "entering") EXCEPT !.mode = "none"]
    ELSE [nd EXCEPT !.pc = "done", !.results = total, !.mode = "none"]
\* The end of an invocation once the results of its subclusters are
\* combined (service.py 267-284): it recurses on them when they are more
\* than one LLM call takes or when some of them are similar, and else
\* returns them.
Combine(nd, total, similar) ==
    IF total > MAX_CLUSTER_SIZE_FOR_LLM \/ (total > 1 /\ similar)
    THEN [Node(total, nd.depth + 1, "entering") EXCEPT !.mode = "none"]
    ELSE [nd EXCEPT !.pc = "done", !.results = total, !.mode = "none"]

WithoutChildren(path) ==
    [q \in DOMAIN merger.nodes \ Children(path) |-> merger.nodes[q]]

\* The parallel branch has collected every subcluster (service.py 247-259):
\* a subcluster that raised counts for no result.
Merger_collect(path, similar) ==
    /\ merger.pc = "run"
    /\ path \in DOMAIN merger.nodes
    /\ merger.nodes[path].pc = "waiting"
    /\ merger.nodes[path].mode = "par"
    /\ \A q \in Children(path) : merger.nodes[q].pc = "done"
    /\ LET total == Sum([q \in Children(path) |->
                            IF merger.nodes[q].raised THEN 0
                            ELSE merger.nodes[q].results], Children(path))
       IN  merger' = [merger EXCEPT !.nodes =
              [WithoutChildren(path) EXCEPT ![path] = Combine(@, total, similar)]]
    /\ UNCHANGED notMergerVars

\* The sequential branch gets the result of the subcluster it called: its
\* exception ends the invocation, its results are added.
Merger_subcluster_returns(path, similar) ==
    /\ merger.pc = "run"
    /\ path \in DOMAIN merger.nodes
    /\ merger.nodes[path].pc = "waiting"
    /\ merger.nodes[path].mode = "seq"
    /\ Children(path) # {}
    /\ \A q \in Children(path) : merger.nodes[q].pc = "done"
    /\ LET nd == merger.nodes[path]
           child == merger.nodes[path \o <<1>>]
           total == nd.total + child.results
       IN  merger' = [merger EXCEPT !.nodes =
              [WithoutChildren(path) EXCEPT ![path] =
                  IF child.raised
                  THEN [nd EXCEPT !.pc = "done", !.raised = TRUE,
                                  !.results = 0, !.mode = "none", !.todo = <<>>]
                  ELSE IF nd.todo = <<>>
                  THEN Combine(nd, total, similar)
                  ELSE [nd EXCEPT !.total = total]]]
    /\ UNCHANGED notMergerVars

\* Every cluster of the iteration has completed (algorithm.py 240-250).
Merger_iteration_done ==
    /\ merger.pc = "run"
    /\ \A q \in DOMAIN merger.nodes : merger.nodes[q].pc = "done"
    /\ merger' = [merger EXCEPT !.pc = "done"]
    /\ UNCHANGED notMergerVars

NextMerger ==
    \/ \E sizes \in ClusterLists, threads \in 1..MaxParallel :
          Merger_submit_clusters(sizes, threads)
    \/ \E path \in DOMAIN merger.nodes : Merger_worker_takes(path)
    \/ \E path \in DOMAIN merger.nodes : Merger_enter(path)
    \/ \E path \in DOMAIN merger.nodes, r \in 0..MaxMergedContents :
          Merger_llm_returns(path, r)
    \/ \E path \in DOMAIN merger.nodes : Merger_call_next(path)
    \/ \E path \in DOMAIN merger.nodes, similar \in BOOLEAN :
          Merger_collect(path, similar)
    \/ \E path \in DOMAIN merger.nodes, similar \in BOOLEAN :
          Merger_subcluster_returns(path, similar)
    \/ Merger_iteration_done

SpecMerger == InitDedupe /\ [][NextMerger]_vars

\* The invocations whose LLM merge call is in flight.
InFlight == {q \in DOMAIN merger.nodes : merger.nodes[q].pc = "calling"}

\* C21: every LLM merge call, for a cluster of any size and at any
\* recursion depth, carries at most MAX_CLUSTER_SIZE_FOR_LLM blocks and at
\* least 2 blocks.
C21_CallSizeBounded ==
    \A q \in InFlight :
        /\ merger.nodes[q].sent <= MAX_CLUSTER_SIZE_FOR_LLM
        /\ merger.nodes[q].sent >= 2

\* The forced merge at the depth limit is in flight for results that are
\* more than one call takes.
C21_Witness ==
    \E q \in InFlight :
        /\ merger.nodes[q].depth >= MAX_RECURSION_DEPTH
        /\ merger.nodes[q].n > MAX_CLUSTER_SIZE_FOR_LLM
        /\ merger.nodes[q].sent = MAX_CLUSTER_SIZE_FOR_LLM

\* C22: within one job, at every moment the number of LLM merge calls in
\* flight is at most LLM_PARALLEL_THREADS, counting the calls for the
\* clusters of the iteration and the calls made at every recursion depth.
C22_CallsInFlightBounded ==
    merger.pc = "run" => Cardinality(InFlight) <= merger.parallel_threads

(***************************************************************************)
(* One merge of a cluster through the LLM: the attempts of                 *)
(* _single_llm_merge, each a call of BlockifyLLM.merge_cluster, which      *)
(* posts to the endpoint through _call_blockify_api.  The environment      *)
(* chooses the endpoint's answer to every post.                            *)
(***************************************************************************)
LLM_MAX_RETRIES == 3
LLM_RETRY_DELAY == 2
\* The default of the parameter max_retries of _call_blockify_api.
max_retries == 3

notLlmVars == <<jobVars, dedupe, merger, loop, embed, search, clustering, split>>

\* What a post to the endpoint can come to: a transport failure, a non-2xx
\* status, a 2xx body without choices[0].message.content, a content from
\* which no ideablock is parsed (or an empty content), a valid response.
Responses == {"transport", "status", "format", "unparsable", "valid"}
\* requests.post or raise_for_status raises.
Raises(response) == response \in {"transport", "status"}

Llm_single_llm_merge ==
    /\ llm.pc = "none"
    /\ llm' = [NoAttempt EXCEPT !.pc = "post", !.attempt = 1]
    /\ UNCHANGED notLlmVars

\* merge_cluster returned without success (or raised) in attempt
\* llm.attempt: _single_llm_merge records the error and sleeps before the
\* next attempt, or raises after the last (service.py 303-327).
AttemptFailed(l, error) ==
    IF l.attempt < LLM_MAX_RETRIES
    THEN [l EXCEPT !.last_error = error,
                   !.waits = @ \o <<LLM_RETRY_DELAY * (2 ^ (l.attempt - 1))>>,
                   !.attempt = @ + 1,
                   !.api_attempt = 0]
    ELSE [l EXCEPT !.last_error = error, !.pc = "raised"]

\* One requests.post of _call_blockify_api and everything up to the next
\* post or the end of the merge.
Llm_post(response, contents) ==
    /\ llm.pc = "post"
    /\ LET l == [llm EXCEPT !.responses = @ \o <<response>>]
       IN  llm' =
             IF response = "valid"
             THEN [l EXCEPT !.pc = "returned", !.merged_contents = contents]
             ELSE IF Raises(response)
             THEN IF l.api_attempt = max_retries - 1
                  THEN AttemptFailed(l, response)
                  ELSE [l EXCEPT !.waits = @ \o <<2 ^ l.api_attempt>>,
                                 !.api_attempt = @ + 1]
             ELSE AttemptFailed(l, "Invalid response from Blockify")
    /\ UNCHANGED notLlmVars

NextLlm ==
    \/ Llm_single_llm_merge
    \/ \E response \in Responses, contents \in 1..MaxMergedContents :
          Llm_post(response, contents)

SpecLlm == InitDedupe /\ [][NextLlm]_vars

\* C23: a merge of one cluster makes at most LLM_MAX_RETRIES attempts at
\* the endpoint, whatever the kind of failure, separated by waits of 2 s,
\* 4 s, ...; it raises only after the LLM_MAX_RETRIES-th failed attempt,
\* with the last error; and when the first post returns 503 and the second
\* a valid response, one wait of 2 s separates them and the merge returns
\* the blocks of the second response.
C23_RetriesWithBackoff ==
    /\ Len(llm.responses) <= LLM_MAX_RETRIES
    /\ \A k \in DOMAIN llm.waits : llm.waits[k] = 2 * (2 ^ (k - 1))
    /\ llm.pc = "raised" =>
          /\ Len(llm.responses) = LLM_MAX_RETRIES
          /\ llm.last_error # ""
    /\ (llm.pc # "post" /\ llm.responses = <<"status", "valid">>) =>
          /\ llm.waits = <<2>>
          /\ llm.pc = "returned"
          /\ llm.merged_contents > 0

(***************************************************************************)
(* The skeleton of run_dedupe: the progress it reports and the threshold   *)
(* it uses from iteration to iteration.  Fractions are exact: a progress   *)
(* is a multiple of 1/12600, the common denominator of every reported      *)
(* value for 1 to 10 iterations; a threshold is in hundredths.             *)
(***************************************************************************)
\* AutoDistillRequest.iterations: le=10.
MaxIterationBudget == 10
\* settings.similarity_increase_per_iteration, in hundredths.
SIMILARITY_INCREASE_PER_ITERATION == 1
SIMILARITY_INCREASE_ITERATION_START == 2
\* settings.max_similarity_threshold, in hundredths.
MAX_SIMILARITY_THRESHOLD == 98

notLoopVars == <<jobVars, dedupe, merger, llm, embed, search, clustering, split>>

\* The progress p/100.
Fraction(p) == p * 126
\* AutoDistillRequest.similarity, in hundredths.
Similarities == {55, 97, 98, 99}

\* reporter.report(phase, progress, details)
ReportProgress(l, phase, progress) == [l EXCEPT !.phase = phase, !.progress = progress]

\* An iteration progress that scales the end of the range, 0.95, and not
\* its width.
IterationFractionOfEnd(iteration, max_iterations) ==
    Fraction(15) + (iteration * Fraction(95)) \div max_iterations
\* iteration_progress_start + (iteration / max_iterations) *
\* iteration_progress_range
IterationFraction(iteration, max_iterations) ==
    Fraction(15) + (iteration * (Fraction(95) - Fraction(15))) \div max_iterations

\* A threshold that is escalated after every iteration.
NextThresholdFromFirst(iteration, current_threshold) ==
    Min2(current_threshold + SIMILARITY_INCREASE_PER_ITERATION,
         MAX_SIMILARITY_THRESHOLD)
\* Step 3.6: the threshold of the next iteration.
NextThreshold(iteration, current_threshold) ==
    IF iteration >= SIMILARITY_INCREASE_ITERATION_START
    THEN Min2(current_threshold + SIMILARITY_INCREASE_PER_ITERATION,
              MAX_SIMILARITY_THRESHOLD)
    ELSE current_threshold

\* The entry of run_dedupe up to the return for fewer than two active
\* blocks (few) or the first report of phase 2.
Loop_run_dedupe(max_iterations, similarity_threshold, few) ==
    /\ loop.pc = "none"
    /\ loop' = [ReportProgress(loop, "initialization", Fraction(0)) EXCEPT
                   !.pc = IF few THEN "returned" ELSE "embeddings",
                   !.max_iterations = max_iterations,
                   !.similarity_threshold = similarity_threshold,
                   !.current_threshold = similarity_threshold]
    /\ UNCHANGED notLoopVars

Loop_embeddings ==
    /\ loop.pc = "embeddings"
    /\ loop' = [ReportProgress(loop, "embeddings", Fraction(5)) EXCEPT !.pc = "embedded"]
    /\ UNCHANGED notLoopVars

Loop_embeddings_complete ==
    /\ loop.pc = "embedded"
    /\ loop' = [ReportProgress(loop, "embeddings", Fraction(15)) EXCEPT
                   !.pc = "iteration", !.iteration = 1]
    /\ UNCHANGED notLoopVars

\* A loop head that goes on to the merge without pairs.
StopsBeforeMergeButForPairs(block_count, similar_pairs, mergeable_clusters) ==
    block_count < 2 \/ (similar_pairs /\ ~mergeable_clusters)
\* The breaks of the loop head (algorithm.py 143-145, 151-153, 159-161):
\* fewer than two blocks in the master list, no similar pair, no cluster
\* of more than one block.
StopsBeforeMerge(block_count, similar_pairs, mergeable_clusters) ==
    block_count < 2 \/ ~similar_pairs \/ ~mergeable_clusters

\* The head of the loop body: the report of the iteration, then one of the
\* stops before any merge or the merge of the clusters.  block_count is
\* len(master_list); similar_pairs and mergeable_clusters say whether the
\* list of that name is non-empty.  The loop ends when the budget is used.
Loop_iteration(block_count, similar_pairs, mergeable_clusters) ==
    /\ loop.pc = "iteration"
    /\ loop' =
         IF loop.iteration > loop.max_iterations
         THEN [loop EXCEPT !.pc = "completion"]
         ELSE LET stop == StopsBeforeMerge(block_count, similar_pairs,
                                           mergeable_clusters)
              IN  [ReportProgress(loop, "iteration",
                      IterationFraction(loop.iteration, loop.max_iterations))
                    EXCEPT !.pc = IF stop THEN "completion" ELSE "merged",
                           !.rounds = IF stop THEN @ ELSE @ + 1,
                           !.block_count = block_count,
                           !.similar_pairs = block_count >= 2 /\ similar_pairs,
                           !.mergeable_clusters =
                               block_count >= 2 /\ similar_pairs
                               /\ mergeable_clusters,
                           !.merged_results = FALSE]
    /\ UNCHANGED notLoopVars

\* The tail of the loop body after the clusters were processed: the stop
\* when nothing was merged and the threshold is at its maximum, or the
\* threshold of the next iteration.
Loop_iteration_complete(nothing_merged) ==
    /\ loop.pc = "merged"
    /\ loop' =
         IF nothing_merged /\ loop.current_threshold >= MAX_SIMILARITY_THRESHOLD
         THEN [loop EXCEPT !.pc = "completion", !.merged_results = FALSE]
         ELSE [loop EXCEPT
                  !.pc = "iteration",
                  !.merged_results = ~nothing_merged,
                  !.current_threshold = NextThreshold(loop.iteration, @),
                  !.iteration = @ + 1]
    /\ UNCHANGED notLoopVars

Loop_completion ==
    /\ loop.pc = "completion"
    /\ loop' = [ReportProgress(loop, "completion", Fraction(95)) EXCEPT !.pc = "complete"]
    /\ UNCHANGED notLoopVars

Loop_complete ==
    /\ loop.pc = "complete"
    /\ loop' = [ReportProgress(loop, "completion", Fraction(100)) EXCEPT !.pc = "returned"]
    /\ UNCHANGED notLoopVars

NextLoop ==
    \/ \E max_iterations \in 1..MaxIterationBudget,
          similarity_threshold \in Similarities, few \in BOOLEAN :
          Loop_run_dedupe(max_iterations, similarity_threshold, few)
    \/ Loop_embeddings
    \/ Loop_embeddings_complete
    \/ \E block_count \in 1..2, similar_pairs \in BOOLEAN,
          mergeable_clusters \in BOOLEAN :
          Loop_iteration(block_count, similar_pairs, mergeable_clusters)
    \/ \E nothing_merged \in BOOLEAN : Loop_iteration_complete(nothing_merged)
    \/ Loop_completion
    \/ Loop_complete

SpecLoop == InitDedupe /\ [][NextLoop]_vars

\* C24: the progress fraction the driver reports never decreases and stays
\* within [0, 1], for every iteration budget from 1 to 10 and every early
\* stop.
C24_ProgressMonotone ==
    [][/\ loop'.progress >= loop.progress
       /\ loop'.progress >= Fraction(0)
       /\ loop'.progress <= Fraction(100)]_vars

\* The loop was left before its budget was used and the run has reported
\* its completion.
C24_Witness ==
    /\ loop.pc = "returned"
    /\ loop.progress = Fraction(100)
    /\ loop.max_iterations = MaxIterationBudget
    /\ loop.iteration < loop.max_iterations
    /\ loop.rounds > 0

\* C28: the threshold used in iteration t + 1 is
\* min(threshold of t + increase, maximum) when t is at or past the start
\* of the escalation (2) and the threshold of t otherwise, and it changes
\* nowhere else; with a budget of one iteration the threshold is never
\* escalated and at most one round of LLM merging takes place.
C28_ThresholdEscalation ==
    [][/\ (loop.pc = "merged" /\ loop'.pc = "iteration") =>
             /\ loop'.iteration = loop.iteration + 1
             /\ loop'.current_threshold =
                   IF loop.iteration >= 2
                   THEN Min2(loop.current_threshold + 1, 98)
                   ELSE loop.current_threshold
       /\ (loop.pc # "none" /\ ~(loop.pc = "merged" /\ loop'.pc = "iteration")) =>
             loop'.current_threshold = loop.current_threshold
       /\ loop'.max_iterations = 1 =>
             /\ loop'.current_threshold = loop'.similarity_threshold
             /\ loop'.rounds <= 1]_vars

\* The fourth iteration starts at the maximum: the threshold 0.97 was kept
\* after iteration 1, raised after iteration 2 and capped after iteration 3.
C28_Witness ==
    /\ loop.pc = "iteration"
    /\ loop.iteration = 4
    /\ loop.max_iterations >= 4
    /\ loop.similarity_threshold = 97
    /\ loop.current_threshold = 98
    /\ loop.rounds = 3

(***************************************************************************)
(* OpenAIEmbeddingGenerator.generate_embeddings: the texts are cut into    *)
(* batches, every batch is posted by a worker of a pool, the main thread   *)
(* collects the futures as they complete and reassembles the result.  The  *)
(* endpoint answers a batch with one embedding per text, in the order of   *)
(* the request, or the post fails.  Text k is the number k.                *)
(***************************************************************************)
MaxTexts == 4
MaxBatchSize == 3

notEmbedVars == <<jobVars, dedupe, merger, llm, loop, search, clustering, split>>

\* The embedding the endpoint computes for a text.
Embedding(text) == <<"embedding", text>>

\* batch_ranges: (start_idx, end_idx) for start_idx in range(0, len(texts),
\* max_batch_size).
BatchRanges(n, max_batch_size) ==
    [b \in 1..((n + max_batch_size - 1) \div max_batch_size) |->
        <<(b - 1) * max_batch_size, Min2(b * max_batch_size, n)>>]

\* texts[start_idx:end_idx]
Slice(seq, start_idx, end_idx) == SubSeq(seq, start_idx + 1, end_idx)

RECURSIVE Extend(_, _, _)
\* embeddings.extend(lists[order[k]]) for k = 1, 2, ... in turn.
Extend(lists, order, k) ==
    IF k > Len(order) THEN <<>>
    ELSE lists[order[k]] \o Extend(lists, order, k + 1)

\* A result put together in the order in which the batches completed.
ReassembleAsCompleted(e) == Extend(e.results_by_index, e.collected, 1)
\* for idx in range(num_batches): embeddings.extend(results_by_index[idx])
Reassemble(e) ==
    Extend(e.results_by_index, [b \in 1..Len(e.batch_ranges) |-> b], 1)

\* The call up to the submission of every batch; the empty input returns
\* at once.
Embed_generate_embeddings(n, max_batch_size, threads) ==
    /\ embed.pc = "none"
    /\ embed' =
         IF n = 0
         THEN [NoEmbedding EXCEPT !.pc = "returned"]
         ELSE [NoEmbedding EXCEPT
                  !.pc = "pool",
                  !.texts = [k \in 1..n |-> k],
                  !.max_batch_size = max_batch_size,
                  !.parallel_threads = threads,
                  !.batch_ranges = BatchRanges(n, max_batch_size),
                  !.futures = [b \in DOMAIN BatchRanges(n, max_batch_size) |->
                                  "pending"],
                  !.results_by_index =
                      [b \in DOMAIN BatchRanges(n, max_batch_size) |-> <<>>]]
    /\ UNCHANGED notEmbedVars

\* A worker takes a batch and posts it.
Embed_process_batch(b) ==
    /\ embed.pc \in {"pool", "raising"}
    /\ b \in DOMAIN embed.futures
    /\ embed.futures[b] = "pending"
    /\ Cardinality({c \in DOMAIN embed.futures : embed.futures[c] = "running"})
          < embed.parallel_threads
    /\ embed' = [embed EXCEPT !.futures[b] = "running", !.posts = @ + 1]
    /\ UNCHANGED notEmbedVars

\* The post of batch b returns, or raises (requests.post, raise_for_status,
\* response.json).
Embed_post_returns(b, ok) ==
    /\ embed.pc \in {"pool", "raising"}
    /\ b \in DOMAIN embed.futures
    /\ embed.futures[b] = "running"
    /\ embed' = [embed EXCEPT !.futures[b] = IF ok THEN "finished" ELSE "failed"]
    /\ UNCHANGED notEmbedVars

\* as_completed yields the future of batch b: future.result() gives its
\* embeddings or raises its exception, which leaves the loop.
Embed_as_completed(b) ==
    /\ embed.pc = "pool"
    /\ b \in DOMAIN embed.futures
    /\ embed.futures[b] \in {"finished", "failed"}
    /\ \A k \in DOMAIN embed.collected : embed.collected[k] # b
    /\ embed' =
         IF embed.futures[b] = "failed"
         THEN [embed EXCEPT !.pc = "raising"]
         ELSE [embed EXCEPT
                  !.collected = Append(@, b),
                  !.results_by_index[b] =
                      LET batch_texts == Slice(embed.texts,
                                               embed.batch_ranges[b][1],
                                               embed.batch_ranges[b][2])
                      IN  [k \in DOMAIN batch_texts |-> Embedding(batch_texts[k])]]
    /\ UNCHANGED notEmbedVars

\* Every future was collected: the result is reassembled and returned.
Embed_return ==
    /\ embed.pc = "pool"
    /\ Len(embed.collected) = Len(embed.batch_ranges)
    /\ embed' = [embed EXCEPT !.pc = "returned", !.result = Reassemble(embed)]
    /\ UNCHANGED notEmbedVars

\* The exception leaves the with block, which waits for every submitted
\* batch, and is raised again by the handler.
Embed_raise ==
    /\ embed.pc = "raising"
    /\ \A b \in DOMAIN embed.futures : embed.futures[b] \in {"finished", "failed"}
    /\ embed' = [embed EXCEPT !.pc = "raised"]
    /\ UNCHANGED notEmbedVars

NextEmbed ==
    \/ \E n \in 0..MaxTexts, max_batch_size \in 1..MaxBatchSize,
          threads \in 1..MaxParallel :
          Embed_generate_embeddings(n, max_batch_size, threads)
    \/ \E b \in DOMAIN embed.futures : Embed_process_batch(b)
    \/ \E b \in DOMAIN embed.futures, ok \in BOOLEAN : Embed_post_returns(b, ok)
    \/ \E b \in DOMAIN embed.futures : Embed_as_completed(b)
    \/ Embed_return
    \/ Embed_raise

SpecEmbed == InitDedupe /\ [][NextEmbed]_vars

\* C25: generate_embeddings returns exactly one vector per input text, in
\* input order, for every split into batches and every completion order;
\* when a batch fails the call fails and returns nothing; for an empty
\* input it returns empty without a post.
C25_EmbeddingsInInputOrder ==
    /\ embed.pc = "returned" =>
          /\ embed.result = [k \in DOMAIN embed.texts |-> Embedding(embed.texts[k])]
          /\ \A b \in DOMAIN embed.futures : embed.futures[b] = "finished"
          /\ embed.texts = <<>> => embed.posts = 0
    /\ embed.pc # "returned" => embed.result = <<>>
    /\ (\E b \in DOMAIN embed.futures : embed.futures[b] = "failed")
          => embed.pc \in {"pool", "raising", "raised"}
    /\ \A b \in DOMAIN embed.batch_ranges :
          embed.batch_ranges[b][2] - embed.batch_ranges[b][1] <= embed.max_batch_size

\* A call returned whose batches completed in another order than they were
\* submitted in.
C25_Witness ==
    /\ embed.pc = "returned"
    /\ Len(embed.collected) >= 2
    /\ embed.collected[1] > embed.collected[2]
    /\ Len(embed.result) = Len(embed.texts)

(***************************************************************************)
(* DedupeAlgorithm._find_similar_pairs: the dense search over the cosine   *)
(* similarity matrix and the search over the candidate pairs of the LSH    *)
(* index.  Items are 0..n-1.  A similarity is in hundredths and is given   *)
(* for every pair i < j.  The random hyperplanes of the index are the      *)
(* environment's choice: hash[t][i] is the bucket of item i in table t.    *)
(***************************************************************************)
MaxItems == 3
\* lsh.MIN_ITEMS_TO_ENABLE_LSH, NUM_HASH_TABLES and NUM_HASH_BITS and
\* settings.similarity_parallel_threads, scaled down to the size of the model.
MIN_ITEMS_TO_ENABLE_LSH == 3
NUM_HASH_TABLES == 2
NUM_HASH_BITS == 1
SIMILARITY_PARALLEL_THREADS == 2

notSearchVars == <<jobVars, dedupe, merger, llm, loop, embed, clustering, split>>

\* The similarities of distinct items, below 1, and the thresholds.
SimilarityLevels == {50, 90, 99}
Thresholds == {90, 95}
PairsOf(n) == {<<i, j>> : i \in 0..(n - 1), j \in 0..(n - 1)} \cap
              {p \in (0..(n - 1)) \X (0..(n - 1)) : p[1] < p[2]}
Before2(p, q) == p[1] < q[1] \/ (p[1] = q[1] /\ p[2] < q[2])
RECURSIVE SortedPairs(_)
\* A set of pairs as a list, by row and column.
SortedPairs(S) ==
    IF S = {} THEN <<>>
    ELSE LET first == CHOOSE p \in S : \A q \in S \ {p} : Before2(p, q)
         IN  <<first>> \o SortedPairs(S \ {first})

\* max(1, (count + SIMILARITY_PARALLEL_THREADS - 1) // SIMILARITY_PARALLEL_THREADS)
ChunkSize(count) ==
    Max2(1, (count + SIMILARITY_PARALLEL_THREADS - 1) \div SIMILARITY_PARALLEL_THREADS)

\* row_chunks of find_similar_pairs_dense, each with the pairs (i, j),
\* j > i, that process_row_chunk looks at, in its order.
RowChunks(n) ==
    [c \in 1..((n + ChunkSize(n) - 1) \div ChunkSize(n)) |->
        SortedPairs({p \in PairsOf(n) :
            /\ p[1] >= (c - 1) * ChunkSize(n)
            /\ p[1] < Min2(c * ChunkSize(n), n)})]

\* LSHIndex.get_candidate_pairs: the pairs that share a bucket in a table.
CandidatePairs(n, hash) ==
    {p \in PairsOf(n) :
        \E t \in 0..(NUM_HASH_TABLES - 1) : hash[t][p[1]] = hash[t][p[2]]}

\* chunks of find_similar_pairs_with_lsh: candidates_list in slices of
\* chunk_size.
CandidateChunks(candidates) ==
    LET candidates_list == SortedPairs(candidates)
        n_candidates == Len(candidates_list)
        chunk_size == ChunkSize(n_candidates)
    IN  [c \in 1..((n_candidates + chunk_size - 1) \div chunk_size) |->
            SubSeq(candidates_list, (c - 1) * chunk_size + 1,
                   Min2(c * chunk_size, n_candidates))]

\* A worker that keeps every pair it looks at.
ChunkResultsUnfiltered(chunk, similarity, threshold) ==
    [k \in DOMAIN chunk |-> <<chunk[k][1], chunk[k][2], similarity[chunk[k]]>>]
\* process_row_chunk and compute_chunk_similarities: the triples of the
\* chunk's pairs whose similarity is at or above the threshold.
ChunkResults(chunk, similarity, threshold) ==
    LET kept == SelectSeq(chunk, LAMBDA p : similarity[p] >= threshold)
    IN  [k \in DOMAIN kept |-> <<kept[k][1], kept[k][2], similarity[kept[k]]>>]

RECURSIVE SortBySimilarity(_)
\* pairs.sort(key=lambda x: x[2], reverse=True): stable, highest first.
SortBySimilarity(seq) ==
    IF seq = <<>> THEN <<>>
    ELSE LET k == CHOOSE i \in DOMAIN seq :
                     /\ \A j \in DOMAIN seq : seq[j][3] <= seq[i][3]
                     /\ \A j \in 1..(i - 1) : seq[j][3] < seq[i][3]
         IN  <<seq[k]>> \o SortBySimilarity(
                 SubSeq(seq, 1, k - 1) \o SubSeq(seq, k + 1, Len(seq)))

\* _find_similar_pairs up to the submission of the chunks.  Fewer than two
\* items and an empty candidate set return at once.
Search_find_similar_pairs(n, similarity, threshold, use_lsh, hash) ==
    /\ search.pc = "none"
    /\ LET with_lsh == use_lsh /\ n >= MIN_ITEMS_TO_ENABLE_LSH
           chunks == IF with_lsh THEN CandidateChunks(CandidatePairs(n, hash))
                     ELSE IF n < 2 THEN <<>>
                     ELSE RowChunks(n)
       IN  search' = [NoSearch EXCEPT
              !.pc = IF chunks = <<>> THEN "returned" ELSE "pool",
              !.n = n,
              !.similarity = similarity,
              !.threshold = threshold,
              !.strategy = IF with_lsh THEN "lsh" ELSE "dense",
              !.chunks = chunks]
    /\ UNCHANGED notSearchVars

\* as_completed yields the future of chunk c: its triples are appended.
Search_chunk_completed(c) ==
    /\ search.pc = "pool"
    /\ c \in DOMAIN search.chunks
    /\ c \notin search.completed
    /\ search' = [search EXCEPT
          !.completed = @ \cup {c},
          !.similar_pairs = @ \o ChunkResults(search.chunks[c], search.similarity,
                                              search.threshold)]
    /\ UNCHANGED notSearchVars

\* Every chunk is in: the dense search sorts its pairs, both return.
Search_return ==
    /\ search.pc = "pool"
    /\ search.completed = DOMAIN search.chunks
    /\ search' = [search EXCEPT
          !.pc = "returned",
          !.similar_pairs = IF search.strategy = "dense"
                            THEN SortBySimilarity(@) ELSE @]
    /\ UNCHANGED notSearchVars

NextSearch ==
    \/ \E n \in 0..MaxItems, threshold \in Thresholds, use_lsh \in BOOLEAN :
          \E similarity \in [PairsOf(n) -> SimilarityLevels],
             hash \in [0..(NUM_HASH_TABLES - 1) ->
                          [0..(n - 1) -> 0..(2 ^ NUM_HASH_BITS - 1)]] :
             Search_find_similar_pairs(n, similarity, threshold, use_lsh, hash)
    \/ \E c \in DOMAIN search.chunks : Search_chunk_completed(c)
    \/ Search_return

SpecSearch == InitDedupe /\ [][NextSearch]_vars

\* C26: under the dense and under the LSH-filtered strategy the search
\* returns only triples (i, j, s) with i < j and s >= threshold, s the
\* similarity of i and j, and no pair (i, j) more than once.
C26_PairsSoundAndUnique ==
    search.pc = "returned" =>
        /\ \A k \in DOMAIN search.similar_pairs :
              LET t == search.similar_pairs[k]
              IN  /\ t[1] < t[2]
                  /\ t[3] >= search.threshold
                  /\ t[3] = search.similarity[<<t[1], t[2]>>]
        /\ \A k, l \in DOMAIN search.similar_pairs :
              (search.similar_pairs[k][1] = search.similar_pairs[l][1]
                 /\ search.similar_pairs[k][2] = search.similar_pairs[l][2])
              => k = l

\* The LSH-filtered search has returned pairs from more than one chunk,
\* while a candidate below the threshold was left out.
C26_Witness ==
    /\ search.pc = "returned"
    /\ search.strategy = "lsh"
    /\ Len(search.chunks) > 1
    /\ Len(search.similar_pairs) > 1
    /\ \E c \in DOMAIN search.chunks : \E k \in DOMAIN search.chunks[c] :
          search.similarity[search.chunks[c][k]] < search.threshold

\* C29: the search returns the whole set of pairs at or above the
\* threshold: under the dense and under the LSH-filtered strategy alike,
\* every pair (i, j), i < j, with similarity >= threshold is in the output.
C29_AllSimilarPairsReturned ==
    search.pc = "returned" =>
        \A p \in PairsOf(search.n) :
            search.similarity[p] >= search.threshold
            => \E k \in DOMAIN search.similar_pairs :
                  /\ search.similar_pairs[k][1] = p[1]
                  /\ search.similar_pairs[k][2] = p[2]

(***************************************************************************)
(* DedupeAlgorithm._create_clusters and the choice of the clusters that    *)
(* go to the merger.  similar_pairs is the set of the pairs (i, j), i < j, *)
(* of the triples found by the search.  A cluster is a list of indices.    *)
(* The communities networkx computes are the environment's choice among    *)
(* the partitions whose communities are connected by pairs.                *)
(***************************************************************************)
MaxNodes == 4
\* settings.louvain_node_threshold, scaled down to the size of the model.
LOUVAIN_NODE_THRESHOLD == 3

notClusteringVars == <<jobVars, dedupe, merger, llm, loop, embed, search, split>>

\* adjacency of a pair list that records a pair at its lower index only.
AdjacencyOneWay(similar_pairs) ==
    [i \in 0..(MaxNodes - 1) |-> {p[2] : p \in {q \in similar_pairs : q[1] = i}}]
\* adjacency[i].add(j); adjacency[j].add(i)
Adjacency(similar_pairs) ==
    [i \in 0..(MaxNodes - 1) |->
        {p[2] : p \in {q \in similar_pairs : q[1] = i}} \cup
        {p[1] : p \in {q \in similar_pairs : q[2] = i}}]
\* len(adjacency): the indices touched by a pair.
Touched(similar_pairs) ==
    {p[1] : p \in similar_pairs} \cup {p[2] : p \in similar_pairs}

RECURSIVE Ascending(_)
\* A set of indices as a list.
Ascending(S) ==
    IF S = {} THEN <<>>
    ELSE LET least == CHOOSE x \in S : \A y \in S : x <= y
         IN  <<least>> \o Ascending(S \ {least})

RECURSIVE Traverse(_, _, _, _)
\* The while loop of _bfs_clustering: pops the stack until it is empty and
\* gives the cluster and the visited set.
Traverse(stack, visited, cluster, adjacency) ==
    IF stack = <<>> THEN [cluster |-> cluster, visited |-> visited]
    ELSE LET node == stack[Len(stack)]
             rest == SubSeq(stack, 1, Len(stack) - 1)
         IN  IF node \in visited
             THEN Traverse(rest, visited, cluster, adjacency)
             ELSE Traverse(
                     rest \o Ascending(adjacency[node] \ (visited \cup {node})),
                     visited \cup {node}, Append(cluster, node), adjacency)

RECURSIVE BfsFrom(_, _, _, _, _)
\* The for loop of _bfs_clustering over range(n_items), from index i on.
BfsFrom(i, n_items, visited, clusters, adjacency) ==
    IF i >= n_items THEN clusters
    ELSE IF i \in visited
         THEN BfsFrom(i + 1, n_items, visited, clusters, adjacency)
         ELSE LET found == Traverse(<<i>>, visited, <<>>, adjacency)
              IN  BfsFrom(i + 1, n_items, found.visited,
                          Append(clusters, found.cluster), adjacency)

bfs_clustering(similar_pairs, n_items) ==
    BfsFrom(0, n_items, {}, <<>>, Adjacency(similar_pairs))

\* The indices that a chain of pairs inside the set S connects to x.
RECURSIVE ReachableWithin(_, _, _)
ReachableWithin(seen, S, similar_pairs) ==
    LET more == {y \in S \ seen : \E x \in seen :
                    <<x, y>> \in similar_pairs \/ <<y, x>> \in similar_pairs}
    IN  IF more = {} THEN seen ELSE ReachableWithin(seen \cup more, S, similar_pairs)

\* The partitions of 0..n_items-1 that louvain_communities can give: every
\* node is in one community and a community is connected by pairs.
Communities(similar_pairs, n_items) ==
    LET labels == {f \in [0..(n_items - 1) -> 0..(n_items - 1)] :
                      \A i \in 0..(n_items - 1) : f[i] <= i /\ f[f[i]] = f[i]}
        community(f, r) == {i \in 0..(n_items - 1) : f[i] = r}
        roots(f) == {f[i] : i \in 0..(n_items - 1)}
    IN  {f \in labels :
            \A r \in roots(f) :
                ReachableWithin({r}, community(f, r), similar_pairs) = community(f, r)}

\* clusters = [list(community) for community in communities]
louvain_clustering(labelling, n_items) ==
    LET roots == Ascending({labelling[i] : i \in 0..(n_items - 1)})
    IN  [k \in DOMAIN roots |->
            Ascending({i \in 0..(n_items - 1) : labelling[i] = roots[k]})]

\* _create_clusters.  labelling is the result of louvain_communities and
\* louvain_fails says that networkx is missing or raises.
Clustering_create_clusters(n_items, similar_pairs, labelling, louvain_fails) ==
    /\ clustering.pc = "none"
    /\ LET strategy ==
               IF similar_pairs = {} THEN "singletons"
               ELSE IF Cardinality(Touched(similar_pairs)) < LOUVAIN_NODE_THRESHOLD
                    THEN "bfs"
               ELSE IF louvain_fails THEN "bfs" ELSE "louvain"
       IN  clustering' = [clustering EXCEPT
              !.pc = "clustered",
              !.n_items = n_items,
              !.similar_pairs = similar_pairs,
              !.strategy = strategy,
              !.clusters =
                  CASE strategy = "singletons" -> [k \in 1..n_items |-> <<k - 1>>]
                    [] strategy = "bfs" -> bfs_clustering(similar_pairs, n_items)
                    [] strategy = "louvain" -> louvain_clustering(labelling, n_items)]
    /\ UNCHANGED notClusteringVars

\* run_dedupe: mergeable_clusters = [c for c in clusters if len(c) > 1];
\* without one the iterations stop, otherwise the clusters go to the merger.
Clustering_mergeable_clusters ==
    /\ clustering.pc = "clustered"
    /\ LET mergeable_clusters == SelectSeq(clustering.clusters, LAMBDA c : Len(c) > 1)
       IN  clustering' = [clustering EXCEPT
              !.pc = IF mergeable_clusters = <<>> THEN "stopped" ELSE "merging",
              !.mergeable_clusters = mergeable_clusters]
    /\ UNCHANGED notClusteringVars

NextClustering ==
    \/ \E n_items \in 0..MaxNodes, louvain_fails \in BOOLEAN :
          \E similar_pairs \in SUBSET PairsOf(n_items) :
             \E labelling \in Communities(similar_pairs, n_items) :
                Clustering_create_clusters(n_items, similar_pairs, labelling,
                                           louvain_fails)
    \/ Clustering_mergeable_clusters

SpecClustering == InitDedupe /\ [][NextClustering]_vars

\* A chain of pairs leads from index a to index b.
ChainOfPairs(a, b) ==
    \E k \in 1..clustering.n_items :
       \E path \in [1..k -> 0..(clustering.n_items - 1)] :
          /\ path[1] = a
          /\ path[k] = b
          /\ \A m \in 1..(k - 1) :
                \/ <<path[m], path[m + 1]>> \in clustering.similar_pairs
                \/ <<path[m + 1], path[m]>> \in clustering.similar_pairs

ClusterOf(c) == {clustering.clusters[c][k] : k \in DOMAIN clustering.clusters[c]}

\* C27: the clusters are a partition of 0..n_items-1: every index is in
\* exactly one cluster, once; an index touched by no pair is a cluster of
\* its own; under the connected-components strategy two indices share a
\* cluster exactly when a chain of pairs connects them; and exactly the
\* clusters of two or more indices are handed to the merger.
C27_ClustersPartitionItems ==
    clustering.pc # "none" =>
        /\ \A i \in 0..(clustering.n_items - 1) :
              \E c \in DOMAIN clustering.clusters :
                 /\ i \in ClusterOf(c)
                 /\ \A d \in DOMAIN clustering.clusters : i \in ClusterOf(d) => d = c
        /\ \A c \in DOMAIN clustering.clusters :
              /\ ClusterOf(c) \subseteq 0..(clustering.n_items - 1)
              /\ Cardinality(ClusterOf(c)) = Len(clustering.clusters[c])
              /\ Len(clustering.clusters[c]) >= 1
        /\ \A i \in (0..(clustering.n_items - 1)) \ Touched(clustering.similar_pairs) :
              \E c \in DOMAIN clustering.clusters : clustering.clusters[c] = <<i>>
        /\ clustering.strategy \in {"bfs", "singletons"} =>
              \A a, b \in 0..(clustering.n_items - 1) :
                 (\E c \in DOMAIN clustering.clusters :
                     a \in ClusterOf(c) /\ b \in ClusterOf(c))
                 <=> ChainOfPairs(a, b)
        /\ clustering.pc \in {"stopped", "merging"} =>
              /\ \A m \in DOMAIN clustering.mergeable_clusters :
                    Len(clustering.mergeable_clusters[m]) >= 2
              /\ \A c \in DOMAIN clustering.clusters :
                    Len(clustering.clusters[c]) >= 2
                    => \E m \in DOMAIN clustering.mergeable_clusters :
                          clustering.mergeable_clusters[m] = clustering.clusters[c]
              /\ Len(clustering.mergeable_clusters) <= Len(clustering.clusters)

\* Connected components gave a cluster of three indices of which two are
\* joined through the third only, next to a singleton, and the cluster of
\* three alone went to the merger.
C27_Witness ==
    /\ clustering.pc = "merging"
    /\ clustering.strategy = "bfs"
    /\ clustering.similar_pairs = {<<0, 2>>, <<1, 2>>}
    /\ clustering.n_items = 4
    /\ Len(clustering.clusters) = 2
    /\ Len(clustering.mergeable_clusters) = 1

\* C30: every returned merged block has type "merged", hidden = false and
\* a non-empty list of sources (blockifyResultsUsed).
C30_MergedBlocksWellFormed ==
    Responded =>
        \A b \in ReturnedMerged :
            /\ b.type = "merged"
            /\ ~b.hidden
            /\ b.blockifyResultsUsed # <<>>

\* C40: across the iterations of one run the similarity threshold never
\* decreases, for every initial threshold the request schema accepts
\* (values above the maximum 0.98 included) and every iteration budget.
C40_ThresholdNeverDecreases ==
    [][(loop.pc = "merged" /\ loop'.pc = "iteration"
          /\ loop'.iteration <= loop'.max_iterations)
       => loop'.current_threshold >= loop.current_threshold]_vars

\* The merger under the assumption that every LLM call returns and that
\* the pools run the tasks they hold: some step of the merger is taken
\* whenever one is possible.
SpecMergerFair == SpecMerger /\ WF_vars(NextMerger)

\* C31: the hierarchical merger terminates for every cluster size, given
\* that each LLM call returns: every recursive call is made at a depth one
\* greater than its caller (an invocation for a subcluster and the
\* recursion of an invocation on its combined results alike), the depth
\* never exceeds MAX_RECURSION_DEPTH, and a call at that depth with at
\* least 2 blocks merges only the first MAX_CLUSTER_SIZE_FOR_LLM blocks in
\* a single LLM call.
C31_MergerTerminates ==
    /\ (merger.pc = "run") ~> (merger.pc = "done")
    /\ [](\A q \in DOMAIN merger.nodes :
            /\ merger.nodes[q].depth <= MAX_RECURSION_DEPTH
            /\ (Len(q) > 1 /\ Front(q) \in DOMAIN merger.nodes) =>
                  merger.nodes[q].depth = merger.nodes[Front(q)].depth + 1
            /\ (merger.nodes[q].depth = MAX_RECURSION_DEPTH /\ merger.nodes[q].n >= 2) =>
                  /\ merger.nodes[q].pc \in {"queued", "entering", "calling", "done"}
                  /\ Children(q) = {}
                  /\ merger.nodes[q].pc = "calling" =>
                        merger.nodes[q].sent =
                           IF merger.nodes[q].n < MAX_CLUSTER_SIZE_FOR_LLM
                           THEN merger.nodes[q].n ELSE MAX_CLUSTER_SIZE_FOR_LLM)
    /\ [][\A q \in DOMAIN merger.nodes \cap DOMAIN merger'.nodes :
            \/ merger'.nodes[q].depth = merger.nodes[q].depth
            \/ /\ merger'.nodes[q].depth = merger.nodes[q].depth + 1
               /\ merger.nodes[q].pc = "waiting"
               /\ merger'.nodes[q].pc = "entering"]_vars

\* The iteration is done after an invocation recursed on its combined
\* results up to the depth limit and force-merged there.
C31_Witness ==
    /\ merger.pc = "done"
    /\ \E q \in DOMAIN merger.nodes :
          /\ Len(q) = 1
          /\ merger.nodes[q].depth = MAX_RECURSION_DEPTH
          /\ merger.nodes[q].n > MAX_CLUSTER_SIZE_FOR_LLM

(***************************************************************************)
(* The split of a large cluster in _process_large_cluster_recursively      *)
(* (service.py 210-265) with the limit of the default configuration.  The  *)
(* bounds of a subcluster are computed in double precision:                *)
(* int(math.floor((i / num_subclusters) * n)) divides, rounds the quotient *)
(* to 53 significant bits, multiplies, rounds again and then takes the     *)
(* floor.  A double is a list of bits, most significant first, with the    *)
(* number of fraction bits kept apart.                                     *)
(***************************************************************************)
MaxSplitSize == 220
\* settings.max_cluster_size_for_llm, the default.
max_cluster_size_for_llm == 20
MANTISSA_BITS == 53

notSplitVars == <<jobVars, dedupe, merger, llm, loop, embed, search, clustering>>

\* The number of doublings that bring i / k into [1, 2), 0 < i <= k.
Doublings(i, k) == CHOOSE e \in 0..8 : k <= i * 2 ^ e /\ i * 2 ^ e < 2 * k

RECURSIVE PowerOfTwoMod(_, _)
\* 2^j modulo k.
PowerOfTwoMod(j, k) ==
    IF j <= 15 THEN (2 ^ j) % k
    ELSE (PowerOfTwoMod(j \div 2, k) * PowerOfTwoMod(j - j \div 2, k)) % k
\* The remainder of the long division of i * 2^Doublings(i, k) by k after
\* j bits behind the leading one.
RemainderAfter(i, k, j) ==
    (((i * 2 ^ Doublings(i, k)) % k) * PowerOfTwoMod(j, k)) % k
\* The leading one and the next count bits of i / k.
QuotientBits(i, k, count) ==
    [j \in 1..(count + 1) |->
        IF j = 1 THEN 1
        ELSE IF 2 * RemainderAfter(i, k, j - 2) >= k THEN 1 ELSE 0]

\* The bits of the next integer.
Increment(bits) ==
    IF \A j \in DOMAIN bits : bits[j] = 1
    THEN <<1>> \o [j \in DOMAIN bits |-> 0]
    ELSE LET last == CHOOSE p \in DOMAIN bits :
                        bits[p] = 0 /\ \A q \in (p + 1)..Len(bits) : bits[q] = 1
         IN  [j \in DOMAIN bits |->
                IF j < last THEN bits[j] ELSE IF j = last THEN 1 ELSE 0]

\* i / k, 0 < i <= k, rounded to the nearest double, ties to even: its 53
\* bits, of which all but the first are fraction bits after Doublings(i, k)
\* halvings.
QuotientDouble(i, k) ==
    LET kept == QuotientBits(i, k, MANTISSA_BITS - 1)
        rest == RemainderAfter(i, k, MANTISSA_BITS - 1)
        up == 2 * rest > k \/ (2 * rest = k /\ kept[MANTISSA_BITS] = 1)
    IN  IF up THEN Increment(kept) ELSE kept

RECURSIVE BitsValue(_)
BitsValue(bits) ==
    IF bits = <<>> THEN 0 ELSE 2 * BitsValue(Front(bits)) + bits[Len(bits)]

\* Long multiplication in digits of LIMB_BITS bits.
LIMB_BITS == 14
LIMBS == 4
\* The digits of an integer of at most 56 bits, most significant first.
ToLimbs(bits) ==
    LET padded == [j \in 1..(LIMBS * LIMB_BITS - Len(bits)) |-> 0] \o bits
    IN  [l \in 1..LIMBS |->
            BitsValue(SubSeq(padded, (l - 1) * LIMB_BITS + 1, l * LIMB_BITS))]
RECURSIVE LimbsTimes(_, _, _)
\* The digits of the product of the digits with n, the leading one holding
\* the last carry.
LimbsTimes(limbs, n, carry) ==
    IF limbs = <<>> THEN <<carry>>
    ELSE LET v == limbs[Len(limbs)] * n + carry
         IN  LimbsTimes(Front(limbs), n, v \div (2 ^ LIMB_BITS))
             \o <<v % (2 ^ LIMB_BITS)>>
\* The bits of the digits without leading zeros.
FromLimbs(limbs) ==
    LET all == [j \in 1..(Len(limbs) * LIMB_BITS) |->
                   (limbs[(j - 1) \div LIMB_BITS + 1]
                       \div (2 ^ (LIMB_BITS - 1 - ((j - 1) % LIMB_BITS)))) % 2]
        ones == {j \in DOMAIN all : all[j] = 1}
    IN  IF ones = {} THEN <<>>
        ELSE SubSeq(all, CHOOSE j \in ones : \A q \in ones : j <= q, Len(all))
\* The bits of the exact product of an integer given by its bits and n.
Times(bits, n) == FromLimbs(LimbsTimes(ToLimbs(bits), n, 0))

\* An integer given by its bits rounded to 53 significant bits, ties to
\* even.
RoundToDouble(bits) ==
    IF Len(bits) <= MANTISSA_BITS THEN bits
    ELSE LET kept == SubSeq(bits, 1, MANTISSA_BITS)
             dropped == SubSeq(bits, MANTISSA_BITS + 1, Len(bits))
             sticky == \E j \in 2..Len(dropped) : dropped[j] = 1
             up == dropped[1] = 1 /\ (sticky \/ kept[MANTISSA_BITS] = 1)
         IN  (IF up THEN Increment(kept) ELSE kept)
             \o [j \in 1..Len(dropped) |-> 0]

\* int(math.floor((i / k) * n)) for 0 <= i <= k.
SliceBound(i, k, n) ==
    IF i = 0 THEN 0
    ELSE LET product == RoundToDouble(Times(QuotientDouble(i, k), n))
             fraction_bits == MANTISSA_BITS - 1 + Doublings(i, k)
         IN  BitsValue(SubSeq(product, 1, Len(product) - fraction_bits))

\* subclusters: the slices sorted_blocks[start:end] that are not empty, as
\* their bounds, in the order of i.
SplitSubclusters(n, num_subclusters) ==
    LET bounds == [i \in 1..num_subclusters |->
                      [start |-> SliceBound(i - 1, num_subclusters, n),
                       end |-> SliceBound(i, num_subclusters, n)]]
    IN  SelectSeq(bounds, LAMBDA b : b.start < b.end)

\* _process_large_cluster_recursively on n > max_cluster_size_for_llm
\* blocks below the depth limit, up to the submission of the subclusters
\* to the pool (parallel) or the first call (sequential).
Split_subclusters(n, parallel) ==
    /\ split.pc = "none"
    /\ LET target_size == Min2(max_cluster_size_for_llm, Max2(5, FloorSqrtTimes2(n)))
           num_subclusters == (n + target_size - 1) \div target_size
           subclusters == SplitSubclusters(n, num_subclusters)
       IN  split' = [NoSplit EXCEPT
              !.pc = IF parallel /\ Len(subclusters) > 1 THEN "pool" ELSE "loop",
              !.n = n,
              !.parallel = parallel,
              !.target_size = target_size,
              !.num_subclusters = num_subclusters,
              !.subclusters = subclusters,
              !.results_by_idx = [i \in DOMAIN subclusters |-> <<>>]]
    /\ UNCHANGED notSplitVars

\* as_completed yields the future of subcluster idx: its result, here the
\* one content that names the subcluster, is stored under its index.
Split_future_completed(idx) ==
    /\ split.pc = "pool"
    /\ idx \in DOMAIN split.subclusters
    /\ idx \notin split.completed
    /\ split' = [split EXCEPT
          !.completed = @ \cup {idx},
          !.results_by_idx[idx] = <<idx>>]
    /\ UNCHANGED notSplitVars

\* for i in range(len(subclusters)): all_results.extend(results_by_idx[i])
Split_extend_by_index ==
    /\ split.pc = "pool"
    /\ split.completed = DOMAIN split.subclusters
    /\ split' = [split EXCEPT
          !.pc = "combined",
          !.all_results = Extend(split.results_by_idx,
                                  [i \in DOMAIN split.subclusters |-> i], 1)]
    /\ UNCHANGED notSplitVars

\* The sequential branch: the call for the next subcluster returns and its
\* result is appended.
Split_call_returns ==
    /\ split.pc = "loop"
    /\ LET idx == Cardinality(split.completed) + 1
       IN  split' =
             IF idx > Len(split.subclusters)
             THEN [split EXCEPT !.pc = "combined"]
             ELSE [split EXCEPT
                     !.completed = @ \cup {idx},
                     !.results_by_idx[idx] = <<idx>>,
                     !.all_results = @ \o <<idx>>]
    /\ UNCHANGED notSplitVars

NextSplit ==
    \/ \E n \in (max_cluster_size_for_llm + 1)..MaxSplitSize, parallel \in BOOLEAN :
          Split_subclusters(n, parallel)
    \/ \E idx \in DOMAIN split.subclusters : Split_future_completed(idx)
    \/ Split_extend_by_index
    \/ Split_call_returns

SpecSplit == InitDedupe /\ [][NextSplit]_vars

\* C32: for a cluster of n > M blocks the merger uses the target size
\* s = min(M, max(5, floor(2 * sqrt(n)))) and k = ceil(n / s) subclusters;
\* the k slices [floor(i * n / k), floor((i + 1) * n / k)) of the sorted
\* cluster are contiguous, pairwise disjoint, non-empty, cover all n blocks
\* and have at most s blocks each (n = 45, M = 20: s = 13, k = 4); and the
\* results of the subclusters are concatenated in the order of the slices
\* whatever the order in which the parallel merges complete.
C32_EvenContiguousSlices ==
    split.pc # "none" =>
        LET n == split.n
            s == split.target_size
            k == split.num_subclusters
            sc == split.subclusters
        IN  /\ s = Min2(max_cluster_size_for_llm, Max2(5, FloorSqrtTimes2(n)))
            /\ k = (n + s - 1) \div s
            /\ n = 45 => (s = 13 /\ k = 4)
            /\ Len(sc) = k
            /\ \A i \in DOMAIN sc :
                  /\ sc[i].start = ((i - 1) * n) \div k
                  /\ sc[i].end = (i * n) \div k
                  /\ sc[i].start < sc[i].end
                  /\ sc[i].end - sc[i].start <= s
                  /\ i > 1 => sc[i].start = sc[i - 1].end
            /\ sc[1].start = 0
            /\ sc[Len(sc)].end = n
            /\ split.pc = "combined" => split.all_results = [i \in 1..k |-> i]

\* The loop of run_dedupe under the assumption that every embedding and
\* merge call returns: some step of the run is taken whenever one is
\* possible.
SpecLoopFair == SpecLoop /\ WF_vars(NextLoop)

\* C33: run_dedupe terminates after at most max_iterations iterations,
\* given that each embedding and merge call returns, and it stops before
\* the budget is used as soon as the master list has fewer than 2 blocks,
\* no pair reaches the threshold, no cluster of 2 or more blocks exists, or
\* an iteration produced no merged block while the threshold is at or
\* above its maximum; it stops early for no other reason and merges
\* nothing after it stopped.
C33_RunTerminatesWithinBudget ==
    /\ (loop.pc # "none") ~> (loop.pc = "returned")
    /\ [](/\ loop.rounds <= loop.max_iterations
          /\ loop.pc = "merged" => loop.iteration <= loop.max_iterations
          /\ loop.iteration <= loop.max_iterations + 1)
    /\ [][/\ (loop.pc = "iteration" /\ loop.iteration <= loop.max_iterations) =>
                /\ loop'.pc \in {"completion", "merged"}
                /\ loop'.pc = "completion" <=>
                      \/ loop'.block_count < 2
                      \/ ~loop'.similar_pairs
                      \/ ~loop'.mergeable_clusters
          /\ (loop.pc = "iteration" /\ loop.iteration > loop.max_iterations) =>
                loop'.pc = "completion"
          /\ loop.pc = "merged" =>
                /\ loop'.pc \in {"completion", "iteration"}
                /\ loop'.pc = "completion" <=>
                      (~loop'.merged_results /\ loop.current_threshold >= 98)
          /\ loop.pc \in {"completion", "complete", "returned"} =>
                /\ loop'.pc \in {"complete", "returned"}
                /\ loop'.rounds = loop.rounds]_vars

\* The run stops in its second iteration of ten because nothing was merged
\* at the maximal threshold.
C33_Witness ==
    /\ loop.pc = "completion"
    /\ loop.max_iterations = MaxIterationBudget
    /\ loop.iteration = 2
    /\ loop.rounds = 2
    /\ loop.mergeable_clusters
    /\ ~loop.merged_results
    /\ loop.current_threshold >= MAX_SIMILARITY_THRESHOLD

WriteOps == {"update_job_success", "update_job_failure", "update_job_timeout",
             "save_intermediate_result"}

\* status, result and error a reader finds once t's write, applied to the
\* record a reader finds now, is complete.
Written(t, j) ==
    CASE thr[t].op = "update_job_success" -> <<SUCCESS, thr[t].arg, Core(j)[3]>>
      [] thr[t].op = "update_job_failure" -> <<FAILURE, Core(j)[2], thr[t].arg>>
      [] thr[t].op = "update_job_timeout" -> <<TIMEOUT, Core(j)[2], TimeoutError>>
      [] OTHER -> Core(j)

\* C35: every store write is atomic for concurrent readers: a step of a
\* write to a job that exists and is not being deleted either leaves what
\* get_job returns (status, result, error) as it was or replaces it by the
\* complete new value, and a step of save_intermediate_result either leaves
\* what get_intermediate_result returns as it was or replaces it by the new
\* snapshot.
C35_WritesAtomicForReaders ==
    [][\A t \in Threads : \A j \in JobIds :
         (Steps(t) /\ thr[t].id = j /\ thr[t].op \in WriteOps
          /\ Exists(j) /\ ~deleted[j] /\ ~Deleting(j))
             => /\ Core(j)' \in {Core(j), Written(t, j)}
                /\ thr[t].op = "save_intermediate_result"
                       => GetIntermediateResult(j)'
                              \in {GetIntermediateResult(j), thr[t].arg}]_vars


\* C36: a job never fails because of the timing of its submission: whenever
\* the worker of job j is inside a store call made by progress_callback or
\* save_intermediate, the handler's job_id is bound and the call addresses j,
\* and no worker reports the failure of its job with the NameError of a
\* callback that read job_id before submit_job returned.
C36_CallbacksAddressSubmittedJob ==
    \A j \in JobIds :
        /\ (thr[Wk(j)].pc = "driver" /\ thr[Wk(j)].op # "none")
               => job_id_var[j] /\ thr[Wk(j)].id = j
        /\ ~(thr[Wk(j)].op = "update_job_failure"
              /\ thr[Wk(j)].arg = <<"NameError">>)


\* C37: the store tracks a future only for running jobs: outside a terminal
\* update or a delete_job call in progress for the job, a job whose status
\* is success, failure or timeout, or that has been deleted, has no entry in
\* the tracked futures.
C37_FutureOnlyForRunning ==
    \A j \in JobIds :
        (/\ ~TerminalUpdateInFlight(j) /\ ~Deleting(j)
         /\ \/ deleted[j]
            \/ Exists(j) /\ StatusOf(j) \in Terminal)
            => ~running_futures[j]


\* C38: no merged block of the final result has itself been merged away:
\* the identifier of a returned merged block is not among the sources
\* (blockifyResultsUsed) of another returned merged block.
C38_ReturnedMergedNotMergedAway ==
    Responded =>
        \A m \in ReturnedMerged, other \in ReturnedMerged :
            m.blockifyResultUUID \notin Range(other.blockifyResultsUsed)


\* C39: every identifier in the sources of a merged block belongs to a
\* block whose content went into an LLM merge call that contributed to the
\* merged block: no merged block of an iteration lists a block of a leaf
\* subcluster whose LLM merge failed in that iteration.
C39_SourcesWereSentToLlm ==
    dedupe.pc = "merge" =>
        \A k \in DOMAIN dedupe.merged_results :
            Range(dedupe.merged_results[k].blockifyResultsUsed)
                \cap dedupe.failed_leaf_uuids = {}

====
